---------------------------- MODULE Spec2Model ----------------------------
(***************************************************************************)
(* A model of the qa-companion document ingestion code:                    *)
(*   src/src/document_loader/ocr_processor.py  (OCRProcessor)              *)
(*   src/src/document_loader/pdf_loader.py     (PDFLoader)                 *)
(*   src/src/ingestion/pipeline.py             (IngestionPipeline)         *)
(*   src/src/utils/file_utils.py               (discovery)                 *)
(*                                                                         *)
(* Text is a sequence of one-character strings, so that str.strip(),       *)
(* str.lower() and " ".join() are computed and not assumed.  A Python      *)
(* call that may raise is an operator returning Return(v) or Raise(msg);   *)
(* a try/except is a test of the "raised" field.                           *)
(***************************************************************************)
EXTENDS Integers, Sequences, FiniteSets, TLC

VARIABLES
    pc,          \* position of the running entry point
    ocr_input,   \* OCR: the image handed to process_image, and the threshold
    ocr_result,  \* OCR: what process_image gave its caller
    images,      \* filter: what the OCR engine reads in each image file
    results,     \* filter: the list process_images has built
    thresholds,  \* filter: the min_words and min_chars of the calls
    disk,        \* the image files present in the image directory
    unlinkable,  \* the image files the file system lets a process remove
    call1,       \* filter: the first call of filter_useful_images
    call2,       \* filter: the call on the first call's output
    pdf,         \* PDF: the pages of the file load_pdf is given
    text_documents,  \* PDF: what _load_text_with_pypdf returned
    image_documents,  \* PDF: what _load_images_with_ocr returned
    img_loop,    \* PDF: the locals of _load_images_with_ocr, and what it did so far
    load_result, \* PDF: the dictionary load_pdf returned
    source_dir,  \* run: the scanned directory and its entries
    run,         \* run: the pattern and expected_extensions of run_ingestion
    document_files,  \* run: what list_document_files returned
    response,    \* run: what the operator typed at the prompt
    confirmed,   \* run: what confirm_processing returned
    index,       \* run: the i of the loop of process_document_files
    processed_files, \* run: IngestionPipeline.processed_files
    failed_files,    \* run: IngestionPipeline.failed_files
    attempted,   \* run: the files handed to process_single_file, in order
    summaries,   \* run: the summary files of the processed-data directory
    report       \* run: the counts show_final_summary printed

ocr_vars == <<ocr_input, ocr_result>>

filter_vars == <<images, results, thresholds, unlinkable, call1, call2>>

pdf_vars == <<pdf, text_documents, img_loop, image_documents, load_result>>

run_vars == <<source_dir, run, document_files, response, confirmed, index,
              processed_files, failed_files, attempted, summaries, report>>

vars == <<pc, ocr_vars, filter_vars, disk, pdf_vars, run_vars>>

----------------------------------------------------------------------------
(* Bounds of the model *)

\* the number of words the OCR engine reports for one image
MaxWords == 3

\* the number of OCR results handed to filter_useful_images
MaxResults == 3

\* the number of pages of a PDF
MaxPages == 2

\* the number of embedded images of a PDF, all pages together
MaxImages == 2

\* the number of entries of the scanned directory
MaxEntries == 3

----------------------------------------------------------------------------
(* Program constants *)

\* OCRProcessor.__init__(min_confidence=50), _run_ocr_on_image(min_confidence=50)
DefaultMinConfidence == 50

\* filter_useful_images(min_words=3)
DefaultMinWords == 3

\* filter_useful_images(min_chars=10)
DefaultMinChars == 10

\* Config.MAX_PAGES_PER_PDF = None
MAX_PAGES_PER_PDF == [none |-> TRUE]

\* Config.MIN_IMAGE_WIDTH
MIN_IMAGE_WIDTH == 100

\* Config.MIN_IMAGE_HEIGHT
MIN_IMAGE_HEIGHT == 100

\* save_processed_data: pdf_result['documents'][:5]
PreviewCount == 5

\* save_processed_data: doc.page_content[:200]
PreviewChars == 200

----------------------------------------------------------------------------
(* Python values *)

Raise(msg) == [raised |-> TRUE, error |-> msg]

Return(v) == [raised |-> FALSE, value |-> v]

None == [none |-> TRUE]

\* the characters str.strip() removes, among the characters up to U+00FF: the
\* space, tab, line feed, vertical tab, form feed, carriage return, the four
\* separators U+001C to U+001F, the next line U+0085 and the no-break space
\* U+00A0.  Characters above U+00FF are not characters of the model.
Whitespace ==
    { " ", "\t", "\n", "", "\f", "\r", "", "", "", "", "",
      " " }

Min(a, b) == IF a < b THEN a ELSE b

RECURSIVE LStrip(_)
LStrip(s) ==
    IF s # <<>> /\ Head(s) \in Whitespace THEN LStrip(Tail(s)) ELSE s

RECURSIVE RStrip(_)
RStrip(s) ==
    IF s # <<>> /\ s[Len(s)] \in Whitespace
    THEN RStrip(SubSeq(s, 1, Len(s) - 1))
    ELSE s

\* str.strip()
Strip(s) == RStrip(LStrip(s))

\* " ".join(words)
RECURSIVE Join(_)
Join(words) ==
    IF words = <<>> THEN <<>>
    ELSE IF Len(words) = 1 THEN words[1]
    ELSE words[1] \o <<" ">> \o Join(Tail(words))

\* sum(w['confidence'] for w in word_details)
RECURSIVE SumConfidence(_)
SumConfidence(word_details) ==
    IF word_details = <<>> THEN 0
    ELSE Head(word_details).confidence + SumConfidence(Tail(word_details))

\* a / b of two integers, kept exact as a fraction
Fraction(a, b) == [num |-> a, den |-> b]

Zero == Fraction(0, 1)

----------------------------------------------------------------------------
(* OCRProcessor.process_image *)

\* int(conf): the engine's confidence as an integer, or ValueError
IntOf(conf) == IF conf.numeric THEN Return(conf.v) ELSE Raise("invalid literal for int()")

\* ScanWords with the threshold test written >= instead of >
RECURSIVE ScanWordsAtThreshold(_, _, _, _, _)
ScanWordsAtThreshold(data, min_confidence, i, valid_words, word_details) ==
    IF i > Min(Len(data.text), Len(data.conf))
    THEN Return([valid_words |-> valid_words, word_details |-> word_details])
    ELSE LET word == data.text[i]
             conf == IntOf(data.conf[i])
         IN  IF conf.raised THEN conf
             ELSE IF conf.value >= min_confidence /\ Strip(word) # <<>>
             THEN IF i > data.boxes
                  THEN Raise("list index out of range")
                  ELSE ScanWordsAtThreshold(data, min_confidence, i + 1,
                           Append(valid_words, Strip(word)),
                           Append(word_details,
                                  [word |-> Strip(word),
                                   confidence |-> conf.value,
                                   box |-> i]))
             ELSE ScanWordsAtThreshold(data, min_confidence, i + 1,
                                       valid_words, word_details)

\* the loop over zip(data["text"], data["conf"]), from position i on
RECURSIVE ScanWords(_, _, _, _, _)
ScanWords(data, min_confidence, i, valid_words, word_details) ==
    IF i > Min(Len(data.text), Len(data.conf))
    THEN Return([valid_words |-> valid_words, word_details |-> word_details])
    ELSE LET word == data.text[i]
             conf == IntOf(data.conf[i])
         IN  IF conf.raised THEN conf
             ELSE IF conf.value > min_confidence /\ Strip(word) # <<>>
             THEN IF i > data.boxes
                  THEN Raise("list index out of range")
                  ELSE ScanWords(data, min_confidence, i + 1,
                           Append(valid_words, Strip(word)),
                           Append(word_details,
                                  [word |-> Strip(word),
                                   confidence |-> conf.value,
                                   box |-> i]))
             ELSE ScanWords(data, min_confidence, i + 1, valid_words, word_details)

\* AverageConfidence with // written for /
AverageConfidenceFloor(word_details) ==
    IF word_details # <<>>
    THEN Fraction(SumConfidence(word_details) \div Len(word_details), 1)
    ELSE Zero

\* the average_confidence expression of the returned dictionary
AverageConfidence(word_details) ==
    IF word_details # <<>>
    THEN Fraction(SumConfidence(word_details), Len(word_details))
    ELSE Zero

\* the body of the try block
ProcessImageBody(image_path, min_confidence, exists, image) ==
    IF ~exists THEN Raise("Image file not found")
    ELSE IF ~image.decodable THEN Raise("cannot identify image file")
    ELSE IF ~image.engine_ok THEN Raise("TesseractError")
    ELSE LET scan == ScanWords(image.data, min_confidence, 1, <<>>, <<>>)
         IN  IF scan.raised THEN scan
             ELSE LET extracted_text == Join(scan.value.valid_words)
                  IN  Return([image_path |-> image_path,
                              extracted_text |-> extracted_text,
                              word_count |-> Len(scan.value.valid_words),
                              char_count |-> Len(extracted_text),
                              word_details |-> scan.value.word_details,
                              has_text |-> Len(scan.value.valid_words) > 0,
                              average_confidence |->
                                  AverageConfidence(scan.value.word_details)])

\* the dictionary of the except branch
ErrorResult(image_path, msg) ==
    [image_path |-> image_path,
     extracted_text |-> <<>>,
     word_count |-> 0,
     char_count |-> 0,
     word_details |-> <<>>,
     has_text |-> FALSE,
     average_confidence |-> Zero,
     error |-> msg]

\* process_image without its except branch
ProcessImageUncaught(image_path, min_confidence, exists, image) ==
    ProcessImageBody(image_path, min_confidence, exists, image)

\* process_image: what the caller gets, Return(dictionary) or Raise
ProcessImageCall(image_path, min_confidence, exists, image) ==
    LET body == ProcessImageBody(image_path, min_confidence, exists, image)
    IN  IF body.raised
        THEN Return(ErrorResult(image_path, body.error))
        ELSE body

----------------------------------------------------------------------------
(* OCRProcessor.filter_useful_images *)

\* IsUseful with the word test written > instead of >=
IsUsefulStrict(result, min_words, min_chars) ==
    /\ result.has_text
    /\ result.word_count > min_words
    /\ result.char_count >= min_chars

\* the test of the if statement
IsUseful(result, min_words, min_chars) ==
    /\ result.has_text
    /\ result.word_count >= min_words
    /\ result.char_count >= min_chars

\* image_path.unlink() inside try/except Exception: pass; the files left
UnlinkQuietly(files, image_path, removable) ==
    IF image_path \in removable THEN files \ {image_path} ELSE files

\* FilterLoop stopping one result early: the last result is not looked at
RECURSIVE FilterLoopOffByOne(_, _, _, _, _, _, _)
FilterLoopOffByOne(ocr_results, min_words, min_chars, i, useful_results, files, removable) ==
    IF i >= Len(ocr_results)
    THEN [useful_results |-> useful_results, files |-> files]
    ELSE LET result == ocr_results[i]
         IN  IF IsUseful(result, min_words, min_chars)
             THEN FilterLoopOffByOne(ocr_results, min_words, min_chars, i + 1,
                                     Append(useful_results, result), files, removable)
             ELSE FilterLoopOffByOne(ocr_results, min_words, min_chars, i + 1,
                                     useful_results,
                                     IF result.image_path \in files
                                     THEN UnlinkQuietly(files, result.image_path,
                                                        removable)
                                     ELSE files,
                                     removable)

\* the for loop, from position i on; files is the image directory so far
RECURSIVE FilterLoop(_, _, _, _, _, _, _)
FilterLoop(ocr_results, min_words, min_chars, i, useful_results, files, removable) ==
    IF i > Len(ocr_results)
    THEN [useful_results |-> useful_results, files |-> files]
    ELSE LET result == ocr_results[i]
         IN  IF IsUseful(result, min_words, min_chars)
             THEN FilterLoop(ocr_results, min_words, min_chars, i + 1,
                             Append(useful_results, result), files, removable)
             ELSE IF result.image_path \in files
             THEN FilterLoop(ocr_results, min_words, min_chars, i + 1,
                             useful_results,
                             UnlinkQuietly(files, result.image_path, removable),
                             removable)
             ELSE FilterLoop(ocr_results, min_words, min_chars, i + 1,
                             useful_results, files, removable)

FilterUsefulImages(ocr_results, min_words, min_chars, files, removable) ==
    FilterLoop(ocr_results, min_words, min_chars, 1, <<>>, files, removable)

----------------------------------------------------------------------------
(* PDFLoader._load_text_with_pypdf *)

\* documents[:max_pages] if max_pages else documents
PagesToProcess(documents) ==
    IF MAX_PAGES_PER_PDF = None
    THEN documents
    ELSE SubSeq(documents, 1, Min(MAX_PAGES_PER_PDF, Len(documents)))

\* the Document of page i (counted from 0)
TextDocument(pdf_path, i, page_content) ==
    [page_content |-> page_content,
     metadata |-> [source |-> pdf_path,
                   page |-> i + 1,
                   type |-> "text",
                   char_count |-> Len(page_content)]]

\* TextLoop keeping every page, the strip() test left out
RECURSIVE TextLoopKeepAll(_, _, _, _)
TextLoopKeepAll(pdf_path, pages_to_process, i, docs) ==
    IF i >= Len(pages_to_process) THEN docs
    ELSE TextLoopKeepAll(pdf_path, pages_to_process, i + 1,
                         Append(docs, TextDocument(pdf_path, i, pages_to_process[i + 1])))

\* the loop over enumerate(pages_to_process), from index i on
RECURSIVE TextLoop(_, _, _, _)
TextLoop(pdf_path, pages_to_process, i, docs) ==
    IF i >= Len(pages_to_process) THEN docs
    ELSE LET page_content == pages_to_process[i + 1]
         IN  IF Strip(page_content) # <<>>
             THEN TextLoop(pdf_path, pages_to_process, i + 1,
                           Append(docs, TextDocument(pdf_path, i, page_content)))
             ELSE TextLoop(pdf_path, pages_to_process, i + 1, docs)

\* loaded is what PyPDFLoader(pdf_path).load() gave: the pages' text, or Raise
LoadTextWithPypdf(pdf_path, loaded) ==
    IF loaded.raised
    THEN <<>>
    ELSE TextLoop(pdf_path, PagesToProcess(loaded.value), 0, <<>>)

----------------------------------------------------------------------------
(* PDFLoader._run_ocr_on_image *)

\* OcrWords with the threshold test written >= instead of >
RECURSIVE OcrWordsAtThreshold(_, _, _, _)
OcrWordsAtThreshold(data, min_confidence, i, words) ==
    IF i > Min(Len(data.text), Len(data.conf))
    THEN Return(words)
    ELSE LET conf == IntOf(data.conf[i])
         IN  IF conf.raised THEN conf
             ELSE IF conf.value >= min_confidence /\ Strip(data.text[i]) # <<>>
             THEN OcrWordsAtThreshold(data, min_confidence, i + 1,
                                      Append(words, Strip(data.text[i])))
             ELSE OcrWordsAtThreshold(data, min_confidence, i + 1, words)

\* the list comprehension over zip(data["text"], data["conf"]), from position i on
RECURSIVE OcrWords(_, _, _, _)
OcrWords(data, min_confidence, i, words) ==
    IF i > Min(Len(data.text), Len(data.conf))
    THEN Return(words)
    ELSE LET conf == IntOf(data.conf[i])
         IN  IF conf.raised THEN conf
             ELSE IF conf.value > min_confidence /\ Strip(data.text[i]) # <<>>
             THEN OcrWords(data, min_confidence, i + 1, Append(words, Strip(data.text[i])))
             ELSE OcrWords(data, min_confidence, i + 1, words)

RunOcrOnImage(exists, image, min_confidence) ==
    IF ~exists \/ ~image.decodable \/ ~image.engine_ok
    THEN <<>>
    ELSE LET words == OcrWords(image.data, min_confidence, 1, <<>>)
         IN  IF words.raised THEN <<>> ELSE Join(words.value)

----------------------------------------------------------------------------
(* PDFLoader._load_images_with_ocr: one turn of the loop over a page's images *)

\* output_folder / f"{pdf_name}_page-{page_num+1}_img-{img_index}.png"
ImagePath(pdf_name, page_num, img_index) == <<pdf_name, page_num + 1, img_index>>

ImageDocument(pdf_path, page_num, img_path, ocr_text) ==
    [page_content |-> ocr_text,
     metadata |-> [source |-> pdf_path,
                   page |-> page_num + 1,
                   image_path |-> img_path,
                   type |-> "image_ocr",
                   char_count |-> Len(ocr_text)]]

\* the size filter with "and" written for "or"
IsSmallBoth(img) ==
    img.width < MIN_IMAGE_WIDTH /\ img.height < MIN_IMAGE_HEIGHT

\* the size filter
IsSmall(img) ==
    img.width < MIN_IMAGE_WIDTH \/ img.height < MIN_IMAGE_HEIGHT

\* pix.save(str(img_path)), after fitz.Pixmap(fitz.csRGB, pix) for CMYK:
\* "saved", "failed" with no file, or "partial" when the file was created
\* and the write then failed
SaveOutcome(img) ==
    IF img.n - img.alpha < 4
    THEN img.save
    ELSE IF img.convert_ok THEN img.save ELSE "failed"

\* ImageIteration whose handler empties docs: a failing image loses the
\* documents collected before it
ImageIterationDropsDocs(st, pdf_path, pdf_name, page_num, img_index, img) ==
    LET img_path == ImagePath(pdf_name, page_num, img_index)
    IN  IF ~img.decode_ok THEN [st EXCEPT !.docs = <<>>]
        ELSE IF IsSmall(img) THEN st
        ELSE IF SaveOutcome(img) = "failed" THEN [st EXCEPT !.docs = <<>>]
        ELSE IF SaveOutcome(img) = "partial"
        THEN [st EXCEPT !.files = @ \cup {img_path}, !.written = @ \cup {img_path},
                        !.docs = <<>>]
        ELSE LET files == st.files \cup {img_path}
                 ocr_text == RunOcrOnImage(img_path \in files, img.image,
                                           DefaultMinConfidence)
                 after == [st EXCEPT !.files = files,
                                     !.written = @ \cup {img_path},
                                     !.scanned = @ \cup {img_path}]
             IN  IF Strip(ocr_text) # <<>>
                 THEN [after EXCEPT !.docs =
                          Append(@, ImageDocument(pdf_path, page_num, img_path, ocr_text))]
                 ELSE IF img_path \in files /\ img.unlink_ok
                 THEN [after EXCEPT !.files = @ \ {img_path}]
                 ELSE [after EXCEPT !.docs = <<>>]

\* ImageIteration without the test of ocr_text.strip(): every image handed to
\* OCR gives a document
ImageIterationKeepsBlank(st, pdf_path, pdf_name, page_num, img_index, img) ==
    LET img_path == ImagePath(pdf_name, page_num, img_index)
    IN  IF ~img.decode_ok THEN st
        ELSE IF IsSmall(img) THEN st
        ELSE IF SaveOutcome(img) = "failed" THEN st
        ELSE IF SaveOutcome(img) = "partial"
        THEN [st EXCEPT !.files = @ \cup {img_path}, !.written = @ \cup {img_path}]
        ELSE LET files == st.files \cup {img_path}
                 ocr_text == RunOcrOnImage(img_path \in files, img.image,
                                           DefaultMinConfidence)
             IN  [st EXCEPT !.files = files,
                            !.written = @ \cup {img_path},
                            !.scanned = @ \cup {img_path},
                            !.docs = Append(@, ImageDocument(pdf_path, page_num,
                                                             img_path, ocr_text))]

\* ImageIteration without its else branch: the file of an image without text
\* is kept
ImageIterationKeepsFile(st, pdf_path, pdf_name, page_num, img_index, img) ==
    LET img_path == ImagePath(pdf_name, page_num, img_index)
    IN  IF ~img.decode_ok THEN st
        ELSE IF IsSmall(img) THEN st
        ELSE IF SaveOutcome(img) = "failed" THEN st
        ELSE IF SaveOutcome(img) = "partial"
        THEN [st EXCEPT !.files = @ \cup {img_path}, !.written = @ \cup {img_path}]
        ELSE LET files == st.files \cup {img_path}
                 ocr_text == RunOcrOnImage(img_path \in files, img.image,
                                           DefaultMinConfidence)
                 after == [st EXCEPT !.files = files,
                                     !.written = @ \cup {img_path},
                                     !.scanned = @ \cup {img_path}]
             IN  IF Strip(ocr_text) # <<>>
                 THEN [after EXCEPT !.docs =
                          Append(@, ImageDocument(pdf_path, page_num, img_path, ocr_text))]
                 ELSE after

\* st is [docs, files, written, scanned]: the local docs, the image directory,
\* the paths pix.save created and the paths handed to OCR.
\* An exception inside the try leaves by "except Exception: continue".
ImageIteration(st, pdf_path, pdf_name, page_num, img_index, img) ==
    LET img_path == ImagePath(pdf_name, page_num, img_index)
    IN  IF ~img.decode_ok THEN st
        ELSE IF IsSmall(img) THEN st
        ELSE IF SaveOutcome(img) = "failed" THEN st
        ELSE IF SaveOutcome(img) = "partial"
        THEN [st EXCEPT !.files = @ \cup {img_path}, !.written = @ \cup {img_path}]
        ELSE LET files == st.files \cup {img_path}
                 ocr_text == RunOcrOnImage(img_path \in files, img.image,
                                           DefaultMinConfidence)
                 after == [st EXCEPT !.files = files,
                                     !.written = @ \cup {img_path},
                                     !.scanned = @ \cup {img_path}]
             IN  IF Strip(ocr_text) # <<>>
                 THEN [after EXCEPT !.docs =
                          Append(@, ImageDocument(pdf_path, page_num, img_path, ocr_text))]
                 ELSE IF img_path \in files /\ img.unlink_ok
                 THEN [after EXCEPT !.files = @ \ {img_path}]
                 ELSE after

----------------------------------------------------------------------------
(* PDFLoader.load_pdf *)

\* the dictionary load_pdf returns
LoadPdfResult(pdf_path, file_name, text_docs, image_docs) ==
    LET all_documents == text_docs \o image_docs
    IN  [file_path |-> pdf_path,
         file_name |-> file_name,
         documents |-> all_documents,
         text_document_count |-> Len(text_docs),
         image_document_count |-> Len(image_docs),
         total_document_count |-> Len(all_documents)]

----------------------------------------------------------------------------
(* PDFLoader._load_images_with_ocr and load_pdf on a whole file.
   A file is [loaded, opened, pages]: what PyPDFLoader(pdf_path).load() gives,
   whether fitz.open works, and for each page whether get_images works and the
   embedded images it lists. *)

\* the loop over the images of page page_num, from img_index on
RECURSIVE ImagesLoop(_, _, _, _, _, _)
ImagesLoop(st, pdf_path, pdf_name, page_num, img_index, page_images) ==
    IF img_index > Len(page_images) THEN st
    ELSE ImagesLoop(ImageIteration(st, pdf_path, pdf_name, page_num, img_index,
                                   page_images[img_index]),
                    pdf_path, pdf_name, page_num, img_index + 1, page_images)

\* the loop over range(num_pages_to_process), from page_num on; an exception
\* of get_images leaves both loops
RECURSIVE PagesLoop(_, _, _, _, _, _)
PagesLoop(st, pdf_path, pdf_name, page_num, num_pages_to_process, pages) ==
    IF page_num >= num_pages_to_process THEN Return(st)
    ELSE IF ~pages[page_num + 1].listed
    THEN [raised |-> TRUE, error |-> "get_images failed", files |-> st.files]
    ELSE PagesLoop(ImagesLoop(st, pdf_path, pdf_name, page_num, 1,
                              pages[page_num + 1].images),
                   pdf_path, pdf_name, page_num + 1, num_pages_to_process, pages)

\* the try block: Return([docs, files, ...]), or Raise with the files left
LoadImagesBody(pdf_path, pdf_name, file, files) ==
    IF ~file.opened
    THEN [raised |-> TRUE, error |-> "cannot open broken document", files |-> files]
    ELSE PagesLoop([docs |-> <<>>, files |-> files, written |-> {}, scanned |-> {}],
                   pdf_path, pdf_name, 0,
                   IF MAX_PAGES_PER_PDF = None
                   THEN Len(file.pages)
                   ELSE Min(MAX_PAGES_PER_PDF, Len(file.pages)),
                   file.pages)

\* _load_images_with_ocr without its outer except branch
LoadImagesWithOcrUncaught(pdf_path, pdf_name, file, files) ==
    LET body == LoadImagesBody(pdf_path, pdf_name, file, files)
    IN  IF body.raised
        THEN body
        ELSE Return([docs |-> body.value.docs, files |-> body.value.files])

\* _load_images_with_ocr: Return([docs, files]), the list and the image directory
LoadImagesWithOcr(pdf_path, pdf_name, file, files) ==
    LET body == LoadImagesBody(pdf_path, pdf_name, file, files)
    IN  IF body.raised
        THEN Return([docs |-> <<>>, files |-> body.files])
        ELSE Return([docs |-> body.value.docs, files |-> body.value.files])

\* load_pdf giving up after a failed text extraction: the images are not
\* looked at
LoadPdfStopsOnTextFailure(pdf_path, pdf_name, file, files) ==
    IF file.loaded.raised
    THEN Return([result |-> LoadPdfResult(pdf_path, pdf_name, <<>>, <<>>),
                 files |-> files])
    ELSE LET image_docs == LoadImagesWithOcr(pdf_path, pdf_name, file, files)
         IN  Return([result |-> LoadPdfResult(pdf_path, pdf_name,
                                              LoadTextWithPypdf(pdf_path, file.loaded),
                                              image_docs.value.docs),
                     files |-> image_docs.value.files])

\* load_pdf: Return([result, files]) or what _load_images_with_ocr raised
LoadPdf(pdf_path, pdf_name, file, files) ==
    LET text_docs == LoadTextWithPypdf(pdf_path, file.loaded)
        image_docs == LoadImagesWithOcr(pdf_path, pdf_name, file, files)
    IN  IF image_docs.raised
        THEN image_docs
        ELSE Return([result |-> LoadPdfResult(pdf_path, pdf_name, text_docs,
                                              image_docs.value.docs),
                     files |-> image_docs.value.files])

----------------------------------------------------------------------------
(* Strings of file names and of the operator's answer *)

\* the characters of the model in code point order
CharOrder ==
    << "\t", "\n", "\r", " ", "*", ".", "/",
       "0", "1", "2", "3", "4", "5", "6", "7", "8", "9",
       "A", "B", "C", "D", "E", "F", "G", "H", "I", "J", "K", "L", "M",
       "N", "O", "P", "Q", "R", "S", "T", "U", "V", "W", "X", "Y", "Z",
       "_",
       "a", "b", "c", "d", "e", "f", "g", "h", "i", "j", "k", "l", "m",
       "n", "o", "p", "q", "r", "s", "t", "u", "v", "w", "x", "y", "z" >>

Ord(c) == CHOOSE i \in 1..Len(CharOrder) : CharOrder[i] = c

\* the capital letters and, at the same positions, the small ones
Capitals ==
    << "A", "B", "C", "D", "E", "F", "G", "H", "I", "J", "K", "L", "M",
       "N", "O", "P", "Q", "R", "S", "T", "U", "V", "W", "X", "Y", "Z" >>

Smalls ==
    << "a", "b", "c", "d", "e", "f", "g", "h", "i", "j", "k", "l", "m",
       "n", "o", "p", "q", "r", "s", "t", "u", "v", "w", "x", "y", "z" >>

\* str.lower() of one character: a capital letter gives its small letter, any
\* other character of CharOrder and of Whitespace is left as it is
LowerChar(c) ==
    IF \E i \in 1..Len(Capitals) : Capitals[i] = c
    THEN Smalls[CHOOSE i \in 1..Len(Capitals) : Capitals[i] = c]
    ELSE c

\* str.lower()
Lower(str) == [i \in 1..Len(str) |-> LowerChar(str[i])]

\* a < b for two str
RECURSIVE StrLess(_, _)
StrLess(a, b) ==
    IF b = <<>> THEN FALSE
    ELSE IF a = <<>> THEN TRUE
    ELSE IF Head(a) = Head(b) THEN StrLess(Tail(a), Tail(b))
    ELSE Ord(Head(a)) < Ord(Head(b))

\* list.sort() of a list of distinct str, given as a set
RECURSIVE Sorted(_)
Sorted(strs) ==
    IF strs = {} THEN <<>>
    ELSE LET least == CHOOSE x \in strs : \A y \in strs \ {x} : StrLess(x, y)
         IN  <<least>> \o Sorted(strs \ {least})

StartsWith(str, prefix) ==
    Len(str) >= Len(prefix) /\ SubSeq(str, 1, Len(prefix)) = prefix

\* str.replace(old, new)
RECURSIVE Replace(_, _, _)
Replace(str, old, new) ==
    IF str = <<>> THEN <<>>
    ELSE IF StartsWith(str, old)
    THEN new \o Replace(SubSeq(str, Len(old) + 1, Len(str)), old, new)
    ELSE <<Head(str)>> \o Replace(Tail(str), old, new)

\* the position of the last c in str, 0 when there is none
LastIndexOf(str, c) ==
    LET at == { i \in 1..Len(str) : str[i] = c }
    IN  IF at = {} THEN 0 ELSE CHOOSE i \in at : \A j \in at : j <= i

\* Path(path).name
PathName(path) == SubSeq(path, LastIndexOf(path, "/") + 1, Len(path))

\* Path(path).suffix: from the last dot of the name, unless it starts or ends it
PathSuffix(path) ==
    LET name == PathName(path)
        dot == LastIndexOf(name, ".")
    IN  IF 1 < dot /\ dot < Len(name) THEN SubSeq(name, dot, Len(name)) ELSE <<>>

\* Path(path).stem
PathStem(path) ==
    LET name == PathName(path)
    IN  SubSeq(name, 1, Len(name) - Len(PathSuffix(path)))

\* Path.glob: name matches pattern, where * stands for any characters
RECURSIVE GlobMatch(_, _)
GlobMatch(pattern, name) ==
    IF pattern = <<>> THEN name = <<>>
    ELSE IF Head(pattern) = "*"
    THEN \/ GlobMatch(Tail(pattern), name)
         \/ name # <<>> /\ GlobMatch(pattern, Tail(name))
    ELSE /\ name # <<>>
         /\ Head(pattern) = Head(name)
         /\ GlobMatch(Tail(pattern), Tail(name))

----------------------------------------------------------------------------
(* file_utils: get_files, get_file_info, validate_files, list_and_validate_files.
   A directory is [exists, is_dir, entries]; an entry is [path, is_file,
   stat_ok, size_bytes, modified, readable, content]. *)

\* get_files
GetFiles(directory, pattern) ==
    IF ~directory.exists THEN <<>>
    ELSE IF ~directory.is_dir THEN <<>>
    ELSE Sorted({ e.path : e \in { x \in directory.entries :
                                     GlobMatch(pattern, PathName(x.path)) } })

\* round(st_size / (1024 * 1024), 2), in hundredths.  The quotient is exact
\* as a float, and round() gives the nearest hundredth, the even one when the
\* quotient is half way between two.  The whole megabytes are set apart so
\* that the products stay below 2^31.
SizeMb(st_size) ==
    LET mega == 1024 * 1024
        whole == st_size \div mega
        rest == st_size % mega
        q == (100 * rest) \div mega
        r == (100 * rest) % mega
        up == IF 2 * r > mega \/ (2 * r = mega /\ q % 2 = 1) THEN 1 ELSE 0
    IN  Fraction(100 * whole + q + up, 100)

\* get_file_info comparing the suffix as it is written
GetFileInfoCaseSensitive(directory, file_path, expected_extensions) ==
    LET found == { e \in directory.entries : e.path = file_path }
    IN  IF found = {} THEN None
        ELSE LET entry == CHOOSE e \in found : TRUE
             IN  IF ~entry.is_file THEN None
                 ELSE IF /\ expected_extensions # <<>>
                         /\ PathSuffix(file_path) \notin
                                { expected_extensions[i] :
                                    i \in 1..Len(expected_extensions) }
                 THEN None
                 ELSE IF ~entry.stat_ok THEN None
                 ELSE [path |-> file_path,
                       name |-> PathName(file_path),
                       extension |-> PathSuffix(file_path),
                       size_bytes |-> entry.size_bytes,
                       size_mb |-> SizeMb(entry.size_bytes),
                       modified |-> entry.modified,
                       is_readable |-> entry.readable]

\* get_file_info: the file_info dictionary, or None
GetFileInfo(directory, file_path, expected_extensions) ==
    LET found == { e \in directory.entries : e.path = file_path }
    IN  IF found = {} THEN None
        ELSE LET entry == CHOOSE e \in found : TRUE
             IN  IF ~entry.is_file THEN None
                 ELSE IF /\ expected_extensions # <<>>
                         /\ Lower(PathSuffix(file_path)) \notin
                                { Lower(expected_extensions[i]) :
                                    i \in 1..Len(expected_extensions) }
                 THEN None
                 ELSE IF ~entry.stat_ok THEN None
                 ELSE [path |-> file_path,
                       name |-> PathName(file_path),
                       extension |-> PathSuffix(file_path),
                       size_bytes |-> entry.size_bytes,
                       size_mb |-> SizeMb(entry.size_bytes),
                       modified |-> entry.modified,
                       is_readable |-> entry.readable]

\* validate_files, from position i on
RECURSIVE ValidateFiles(_, _, _, _, _)
ValidateFiles(directory, file_paths, expected_extensions, i, validated_files) ==
    IF i > Len(file_paths) THEN validated_files
    ELSE LET file_info == GetFileInfo(directory, file_paths[i], expected_extensions)
         IN  ValidateFiles(directory, file_paths, expected_extensions, i + 1,
                           IF file_info # None
                           THEN Append(validated_files, file_info)
                           ELSE validated_files)

\* list_and_validate_files
ListAndValidateFiles(directory, pattern, expected_extensions) ==
    LET file_paths == GetFiles(directory, pattern)
    IN  IF file_paths = <<>> THEN <<>>
        ELSE ValidateFiles(directory, file_paths, expected_extensions, 1, <<>>)

----------------------------------------------------------------------------
(* IngestionPipeline *)

\* the elements of a list that are readable files
ReadableFiles(doc_files) ==
    LET Test(f) == f.is_readable
    IN  SelectSeq(doc_files, Test)

Yes == { <<"y">>, <<"y", "e", "s">> }

No == { <<"n">>, <<"n", "o">> }

\* confirm_processing, typed being what input() returns when it is called
ConfirmProcessing(doc_files, typed) ==
    IF ReadableFiles(doc_files) = <<>> THEN FALSE
    ELSE LET answer == Strip(Lower(typed))
         IN  IF answer \in Yes THEN TRUE
             ELSE IF answer \in No THEN FALSE
             ELSE TRUE

\* the preview with >= written for >: content of exactly 200 characters gets
\* the dots
ContentPreviewFromLimit(page_content) ==
    IF Len(page_content) >= PreviewChars
    THEN SubSeq(page_content, 1, PreviewChars) \o <<".", ".", ".">>
    ELSE page_content

\* doc.page_content[:200] + "..." if len(doc.page_content) > 200 else doc.page_content
ContentPreview(page_content) ==
    IF Len(page_content) > PreviewChars
    THEN SubSeq(page_content, 1, PreviewChars) \o <<".", ".", ".">>
    ELSE page_content

\* the doc_preview of the document at index i (counted from 0)
DocPreview(i, doc) ==
    LET doc_preview == [document_index |-> i,
                        type |-> doc.metadata.type,
                        page |-> doc.metadata.page,
                        char_count |-> doc.metadata.char_count,
                        content_preview |-> ContentPreview(doc.page_content)]
    IN  IF doc.metadata.type = "image_ocr"
        THEN [document_index |-> i,
              type |-> doc.metadata.type,
              page |-> doc.metadata.page,
              char_count |-> doc.metadata.char_count,
              content_preview |-> ContentPreview(doc.page_content),
              image_path |-> doc.metadata.image_path]
        ELSE doc_preview

\* processed_dir / f"{file_name}_summary.json"
SummaryFile(file_info) ==
    [file_name |-> Replace(file_info.name, <<".", "p", "d", "f">>, <<>>),
     ending |-> "_summary.json"]

SummaryData(file_info, pdf_result) ==
    LET first == SubSeq(pdf_result.documents, 1,
                        Min(PreviewCount, Len(pdf_result.documents)))
    IN  [original_file |-> file_info.path,
         file_name |-> pdf_result.file_name,
         processing_timestamp |-> file_info.modified,
         text_documents |-> pdf_result.text_document_count,
         image_documents |-> pdf_result.image_document_count,
         total_documents |-> pdf_result.total_document_count,
         documents_preview |-> [i \in 1..Len(first) |-> DocPreview(i - 1, first[i])]]

\* save_processed_data.  write is what the file system does: "written", or
\* "refused" (mkdir, stat or open fails), or "truncated" (open creates the
\* file and json.dump fails).  The outcome and the summary files afterwards.
SaveProcessedData(file_info, pdf_result, written, write) ==
    LET others == { f \in written : f.file # SummaryFile(file_info) }
    IN  IF write = "refused"
        THEN [raised |-> TRUE, error |-> "Permission denied", written |-> written]
        ELSE IF write = "truncated"
        THEN [raised |-> TRUE, error |-> "No space left on device",
              written |-> others \cup {[file |-> SummaryFile(file_info),
                                        data |-> [truncated |-> TRUE]]}]
        ELSE [raised |-> FALSE,
              written |-> others \cup {[file |-> SummaryFile(file_info),
                                        data |-> SummaryData(file_info, pdf_result)]}]

\* what a call leaves: the image directory and the summary files
Left(outcome, files, written) ==
    [raised |-> outcome.raised,
     value |-> IF outcome.raised THEN None ELSE outcome.value,
     error |-> IF outcome.raised THEN outcome.error ELSE None,
     files |-> files,
     written |-> written]

\* AfterLoadPdf with what save_processed_data raises swallowed: the result is
\* returned whether or not the summary was written
AfterLoadPdfIgnoresSaveFailure(file_info, loaded, written, write) ==
    IF loaded.raised
    THEN Left(Raise([prefix |-> "PDF processing failed: ", cause |-> loaded.error]),
              loaded.files, written)
    ELSE Left(Return(loaded.value.result), loaded.value.files,
              SaveProcessedData(file_info, loaded.value.result, written,
                                write).written)

\* the rest of process_pdf_file once load_pdf has returned or raised
AfterLoadPdf(file_info, loaded, written, write) ==
    IF loaded.raised
    THEN Left(Raise([prefix |-> "PDF processing failed: ", cause |-> loaded.error]),
              loaded.files, written)
    ELSE LET saved == SaveProcessedData(file_info, loaded.value.result, written,
                                        write)
         IN  IF saved.raised
             THEN Left(Raise([prefix |-> "PDF processing failed: ",
                              cause |-> saved.error]),
                       loaded.value.files, saved.written)
             ELSE Left(Return(loaded.value.result), loaded.value.files,
                       saved.written)

\* process_pdf_file
ProcessPdfFile(file_info, file, files, written, write) ==
    AfterLoadPdf(file_info,
                 LoadPdf(file_info.path, PathStem(file_info.path), file, files),
                 written, write)

\* process_single_file comparing the extension as it is written
ProcessSingleFileCaseSensitive(file_info, file, files, written, write) ==
    LET file_extension == file_info.extension
    IN  IF file_extension = <<".", "p", "d", "f">>
        THEN ProcessPdfFile(file_info, file, files, written, write)
        ELSE IF file_extension \in { <<".", "t", "x", "t">>, <<".", "m", "d">> }
        THEN Left(Raise([prefix |-> "Text file processing not yet implemented"]),
                  files, written)
        ELSE IF file_extension \in { <<".", "d", "o", "c", "x">>, <<".", "d", "o", "c">> }
        THEN Left(Raise([prefix |-> "Word document processing not yet implemented"]),
                  files, written)
        ELSE Left(Raise([prefix |-> "Unsupported file type: ",
                         extension |-> file_extension]),
                  files, written)

\* process_single_file
ProcessSingleFile(file_info, file, files, written, write) ==
    LET file_extension == Lower(file_info.extension)
    IN  IF file_extension = <<".", "p", "d", "f">>
        THEN ProcessPdfFile(file_info, file, files, written, write)
        ELSE IF file_extension \in { <<".", "t", "x", "t">>, <<".", "m", "d">> }
        THEN Left(Raise([prefix |-> "Text file processing not yet implemented"]),
                  files, written)
        ELSE IF file_extension \in { <<".", "d", "o", "c", "x">>, <<".", "d", "o", "c">> }
        THEN Left(Raise([prefix |-> "Word document processing not yet implemented"]),
                  files, written)
        ELSE Left(Raise([prefix |-> "Unsupported file type: ",
                         extension |-> file_extension]),
                  files, written)

\* the try branch of the loop of process_document_files with no except branch
\* after it: what process_single_file raised leaves the loop
TryOnly(file_info, done) ==
    IF done.raised
    THEN [status |-> "raised", files |-> done.files, written |-> done.written]
    ELSE [status |-> "processed",
          entry |-> [file_info |-> file_info, processing_result |-> done.value],
          files |-> done.files, written |-> done.written]

\* try/except of the loop of process_document_files, done being what
\* process_single_file left: the entry appended to processed_files or to
\* failed_files
TryExcept(file_info, done) ==
    IF done.raised
    THEN [status |-> "failed",
          entry |-> [file_info |-> file_info, error |-> done.error],
          files |-> done.files, written |-> done.written]
    ELSE [status |-> "processed",
          entry |-> [file_info |-> file_info, processing_result |-> done.value],
          files |-> done.files, written |-> done.written]

\* the body of the loop of process_document_files
ProcessOne(file_info, file, files, written, write) ==
    TryExcept(file_info, ProcessSingleFile(file_info, file, files, written, write))

----------------------------------------------------------------------------
(* What the OCR engine may report *)

Numeric(n) == [numeric |-> TRUE, v |-> n]

\* a confidence int() cannot convert
NotNumeric == [numeric |-> FALSE, v |-> 0]

\* the engine's data for words and their confidences, every word with its box
Data(text, conf) == [text |-> text, conf |-> conf, boxes |-> Len(text)]

Image(decodable, engine_ok, data) ==
    [decodable |-> decodable, engine_ok |-> engine_ok, data |-> data]

WordValues == { <<>>, <<" ", "\f">>, <<"H", "i">>, <<"\t", "a", "\r", "\n">> }

ConfidenceValues == { Numeric(0), Numeric(50), Numeric(51), NotNumeric }

MinConfidenceValues == {0, 50}

\* the sequences of length n over S
Tuples(S, n) == [1..n -> S]

ImagePaths == {"img1.png", "img2.png"}

NoData == Data(<<>>, <<>>)

\* an image file that is missing, one that is no image, one the engine fails on
FailingInputs ==
    { [image_path |-> "img1.png", exists |-> FALSE, image |-> Image(TRUE, TRUE, NoData)],
      [image_path |-> "img1.png", exists |-> TRUE, image |-> Image(FALSE, TRUE, NoData)],
      [image_path |-> "img1.png", exists |-> TRUE, image |-> Image(TRUE, FALSE, NoData)] }

----------------------------------------------------------------------------
(* Entry point: OCRProcessor(min_confidence).process_image(image_path) *)

Idle == [state |-> "idle"]

\* the variables of the entry points that are not running
FilterIdle ==
    /\ images = Idle
    /\ results = <<>>
    /\ thresholds = Idle
    /\ unlinkable = {}
    /\ call1 = Idle
    /\ call2 = Idle

RunIdle ==
    /\ source_dir = Idle
    /\ run = Idle
    /\ document_files = <<>>
    /\ response = Idle
    /\ confirmed = Idle
    /\ index = 0
    /\ processed_files = <<>>
    /\ failed_files = <<>>
    /\ attempted = <<>>
    /\ summaries = {}
    /\ report = Idle

PdfIdle ==
    /\ pdf = Idle
    /\ text_documents = <<>>
    /\ img_loop = Idle
    /\ image_documents = <<>>
    /\ load_result = Idle

InitOCR ==
    /\ pc = "process_image"
    /\ \E min_confidence \in MinConfidenceValues :
           \/ \E input \in FailingInputs :
                  ocr_input = [image_path |-> input.image_path,
                               exists |-> input.exists,
                               image |-> input.image,
                               min_confidence |-> min_confidence]
           \/ \E n \in 0..MaxWords :
                  \E text \in Tuples(WordValues, n),
                     conf \in Tuples(ConfidenceValues, n) :
                      ocr_input = [image_path |-> "img1.png",
                                   exists |-> TRUE,
                                   image |-> Image(TRUE, TRUE, Data(text, conf)),
                                   min_confidence |-> min_confidence]
    /\ ocr_result = Idle
    /\ FilterIdle
    /\ disk = {}
    /\ PdfIdle
    /\ RunIdle

ProcessImage ==
    /\ pc = "process_image"
    /\ ocr_result' = ProcessImageCall(ocr_input.image_path, ocr_input.min_confidence,
                                      ocr_input.exists, ocr_input.image)
    /\ pc' = "returned"
    /\ UNCHANGED <<ocr_input, filter_vars, disk, pdf_vars, run_vars>>

NextOCR == ProcessImage

SpecOCR == InitOCR /\ [][NextOCR]_vars

----------------------------------------------------------------------------
(* Entry point: process_images(image_paths), then filter_useful_images on its
   results, then filter_useful_images on what that returned *)

\* the engine raises on this image
ImgEngineFails == Image(TRUE, FALSE, NoData)

\* "Hi", "", "there" at 90, 10, 20: one accepted word of two characters
ImgHi ==
    Image(TRUE, TRUE,
          Data(<< <<"H", "i">>, <<>>, <<"t", "h", "e", "r", "e">> >>,
               << Numeric(90), Numeric(10), Numeric(20) >>))

\* three accepted words, five characters
ImgShort ==
    Image(TRUE, TRUE,
          Data(<< <<"a">>, <<"b">>, <<"c">> >>,
               << Numeric(90), Numeric(90), Numeric(90) >>))

\* "INVOICE 42": two accepted words, ten characters
ImgInvoice ==
    Image(TRUE, TRUE,
          Data(<< <<"I", "N", "V", "O", "I", "C", "E">>, <<" ", "4", "2">> >>,
               << Numeric(96), Numeric(91) >>))

\* "total is 42": three accepted words, eleven characters
ImgTotal ==
    Image(TRUE, TRUE,
          Data(<< <<"t", "o", "t", "a", "l">>, <<"i", "s">>, <<"4", "2">> >>,
               << Numeric(80), Numeric(70), Numeric(60) >>))

SampleImages == {ImgEngineFails, ImgHi, ImgShort, ImgInvoice, ImgTotal}

ThresholdValues ==
    { [min_words |-> DefaultMinWords, min_chars |-> DefaultMinChars],
      [min_words |-> 1, min_chars |-> 1],
      [min_words |-> 2, min_chars |-> 11] }

InitFilter ==
    /\ pc = "process_images"
    /\ ocr_input = Idle
    /\ ocr_result = Idle
    /\ images \in [ImagePaths -> SampleImages]
    /\ results = <<>>
    /\ thresholds \in ThresholdValues
    /\ disk \in SUBSET ImagePaths
    /\ unlinkable \in SUBSET disk
    /\ call1 = Idle
    /\ call2 = Idle
    /\ PdfIdle
    /\ RunIdle

\* one turn of the loop of process_images
ProcessImagesStep ==
    /\ pc = "process_images"
    /\ Len(results) < MaxResults
    /\ \E image_path \in ImagePaths :
           results' = Append(results,
                             ProcessImageCall(image_path, DefaultMinConfidence,
                                              image_path \in disk,
                                              images[image_path]).value)
    /\ UNCHANGED <<pc, ocr_vars, images, thresholds, disk, unlinkable, call1, call2,
                   pdf_vars, run_vars>>

\* a call of filter_useful_images, with the directory before and after it
FilterCall(ocr_results) ==
    LET out == FilterUsefulImages(ocr_results, thresholds.min_words,
                                  thresholds.min_chars, disk, unlinkable)
    IN  [ocr_results |-> ocr_results,
         before |-> disk,
         useful_results |-> out.useful_results,
         after |-> out.files]

FilterUseful ==
    /\ pc = "process_images"
    /\ call1' = FilterCall(results)
    /\ disk' = call1'.after
    /\ pc' = "filtered"
    /\ UNCHANGED <<ocr_vars, images, results, thresholds, unlinkable, call2, pdf_vars, run_vars>>

FilterAgain ==
    /\ pc = "filtered"
    /\ call2' = FilterCall(call1.useful_results)
    /\ disk' = call2'.after
    /\ pc' = "refiltered"
    /\ UNCHANGED <<ocr_vars, images, results, thresholds, unlinkable, call1, pdf_vars, run_vars>>

NextFilter == ProcessImagesStep \/ FilterUseful \/ FilterAgain

SpecFilter == InitFilter /\ [][NextFilter]_vars

----------------------------------------------------------------------------
(* Entry point: PDFLoader().load_pdf(pdf_path) *)

\* the engine reports a confidence int() cannot convert
ImgMalformed ==
    Image(TRUE, TRUE, Data(<< <<"H", "i">>, <<"x">> >>, << Numeric(90), NotNumeric >>))

\* the text of a page: blank, and text between blanks
PageContents == { <<"\f">>, <<" ", "\n">>, <<"\t", "p", "1", "\r", "\n">> }

\* an embedded image, with what the libraries and the file system do on it:
\* fitz.Pixmap, pix.width and pix.height, pix.n and pix.alpha, the conversion
\* to RGB, pix.save, the OCR engine on the saved file, unlink
Embedded(decode_ok, size, mode, save, image, unlink_ok) ==
    [decode_ok |-> decode_ok, width |-> size[1], height |-> size[2],
     n |-> mode[1], alpha |-> mode[2], convert_ok |-> mode[3],
     save |-> save, image |-> image, unlink_ok |-> unlink_ok]

\* pixel sizes below the minimum: the 80x80 icon, too narrow, too short
SmallSizes == { <<80, 80>>, <<99, 200>>, <<200, 99>> }

\* exactly the minimum size
MinimumSize == <<MIN_IMAGE_WIDTH, MIN_IMAGE_HEIGHT>>

\* pix.n, pix.alpha and whether the conversion to RGB works
RGB == <<3, 0, TRUE>>

RGBA == <<4, 1, TRUE>>

CMYK == <<4, 0, TRUE>>

CMYKUnconvertible == <<4, 0, FALSE>>

\* the images whose OCR text is empty, and those with text
TextlessImages == {ImgEngineFails, ImgMalformed}

TextImages == {ImgHi, ImgTotal}

\* the embedded images a page may hold.  What an image does at a step the
\* loop does not reach for it is left at "works": an image that cannot be
\* decoded, the small ones, one whose conversion fails, and for each colour
\* mode that can be saved the outcomes of save, OCR and unlink.
EmbeddedImages ==
    { Embedded(FALSE, MinimumSize, RGB, "saved", ImgTotal, TRUE) }
    \cup { Embedded(TRUE, size, RGB, "saved", ImgTotal, TRUE) : size \in SmallSizes }
    \cup { Embedded(TRUE, MinimumSize, CMYKUnconvertible, "saved", ImgTotal, TRUE) }
    \cup { Embedded(TRUE, MinimumSize, mode, sv, ImgTotal, TRUE) :
             mode \in {RGB, RGBA, CMYK}, sv \in {"failed", "partial"} }
    \cup { Embedded(TRUE, MinimumSize, mode, "saved", im, TRUE) :
             mode \in {RGB, RGBA, CMYK}, im \in TextImages }
    \cup { Embedded(TRUE, MinimumSize, mode, "saved", im, u) :
             mode \in {RGB, RGBA, CMYK}, im \in TextlessImages, u \in BOOLEAN }

PdfPath == "dir/doc.pdf"

\* Path(pdf_path).stem
PdfName == "doc"

RECURSIVE SumSeq(_)
SumSeq(q) == IF q = <<>> THEN 0 ELSE Head(q) + SumSeq(Tail(q))

InitPDF ==
    /\ pc = "load_text"
    /\ ocr_input = Idle
    /\ ocr_result = Idle
    /\ FilterIdle
    /\ disk = {}
    /\ \E n \in 0..MaxPages :
           \E contents \in Tuples(PageContents, n), counts \in Tuples(0..MaxImages, n) :
               /\ SumSeq(counts) <= MaxImages
               /\ pdf = [pages |-> [i \in 1..n |->
                                       [content |-> contents[i], images |-> counts[i]]]]
    /\ text_documents = <<>>
    /\ img_loop = Idle
    /\ image_documents = <<>>
    /\ load_result = Idle
    /\ RunIdle

\* text_documents = self._load_text_with_pypdf(pdf_path)
LoadText ==
    /\ pc = "load_text"
    /\ \E loaded \in { Return([i \in 1..Len(pdf.pages) |-> pdf.pages[i].content]),
                       Raise("PdfReadError") } :
           text_documents' = LoadTextWithPypdf(PdfPath, loaded)
    /\ pc' = "open"
    /\ UNCHANGED <<ocr_vars, filter_vars, disk, pdf, img_loop, image_documents,
                   load_result, run_vars>>

\* _load_images_with_ocr up to its loop: the output folder, fitz.open, docs = []
OpenPdf ==
    /\ pc = "open"
    /\ \E opened \in BOOLEAN :
           IF opened
           THEN /\ img_loop' = [page_num |-> 0, img_index |-> 0,
                                num_pages_to_process |->
                                    IF MAX_PAGES_PER_PDF = None
                                    THEN Len(pdf.pages)
                                    ELSE Min(MAX_PAGES_PER_PDF, Len(pdf.pages)),
                                docs |-> <<>>, written |-> {}, scanned |-> {},
                                small |-> {}, log |-> <<>>,
                                returned |-> "no"]
                /\ pc' = "pages"
                /\ UNCHANGED image_documents
           ELSE \* except Exception: return []
                /\ image_documents' = <<>>
                /\ pc' = "combine"
                /\ UNCHANGED img_loop
    /\ UNCHANGED <<ocr_vars, filter_vars, disk, pdf, text_documents, load_result, run_vars>>

\* page = doc[page_num]; images = page.get_images(full=True)
GetImages ==
    /\ pc = "pages"
    /\ img_loop.page_num < img_loop.num_pages_to_process
    /\ \E listed \in BOOLEAN :
           IF listed
           THEN /\ img_loop' = [img_loop EXCEPT !.img_index = 1]
                /\ pc' = "images"
                /\ UNCHANGED image_documents
           ELSE \* the outer except Exception: return []
                /\ image_documents' = <<>>
                /\ pc' = "combine"
                /\ img_loop' = [img_loop EXCEPT !.returned = "except"]
    /\ UNCHANGED <<ocr_vars, filter_vars, disk, pdf, text_documents, load_result, run_vars>>

\* what the libraries did with an embedded image, for the record of the loop:
\* whether fitz.Pixmap decoded it, whether it is below the minimum size, what
\* pix.save did if it was called, the text OCR reads in the saved file, and
\* whether the file system lets the file go
Handled(img_path, img) ==
    LET below == img.width < MIN_IMAGE_WIDTH \/ img.height < MIN_IMAGE_HEIGHT
        save == IF img.decode_ok /\ ~below THEN SaveOutcome(img) ELSE "none"
    IN  [path |-> img_path,
         decode_ok |-> img.decode_ok,
         below |-> below,
         save |-> save,
         ocr_text |-> IF save = "saved"
                      THEN RunOcrOnImage(TRUE, img.image, DefaultMinConfidence)
                      ELSE <<>>,
         unlink_ok |-> save # "saved" \/ img.unlink_ok]

\* one turn of "for img_index, img in enumerate(images, start=1)"
ImageStep ==
    /\ pc = "images"
    /\ img_loop.img_index <= pdf.pages[img_loop.page_num + 1].images
    /\ \E img \in EmbeddedImages :
           LET st == [docs |-> img_loop.docs, files |-> disk,
                      written |-> img_loop.written, scanned |-> img_loop.scanned]
               out == ImageIteration(st, PdfPath, PdfName, img_loop.page_num,
                                     img_loop.img_index, img)
           IN  /\ img_loop' = [img_loop EXCEPT
                      !.docs = out.docs,
                      !.written = out.written,
                      !.scanned = out.scanned,
                      !.small = IF <<img.width, img.height>> \in SmallSizes
                                THEN @ \cup {[path |-> ImagePath(PdfName,
                                                                img_loop.page_num,
                                                                img_loop.img_index),
                                              size |-> <<img.width, img.height>>]}
                                ELSE @,
                      !.log = Append(@, Handled(ImagePath(PdfName, img_loop.page_num,
                                                          img_loop.img_index), img)),
                      !.img_index = @ + 1]
               /\ disk' = out.files
    /\ UNCHANGED <<pc, ocr_vars, filter_vars, pdf, text_documents, image_documents,
                   load_result, run_vars>>

\* the images of the page are done: the next page_num of the range
EndPage ==
    /\ pc = "images"
    /\ img_loop.img_index > pdf.pages[img_loop.page_num + 1].images
    /\ img_loop' = [img_loop EXCEPT !.page_num = @ + 1, !.img_index = 0]
    /\ pc' = "pages"
    /\ UNCHANGED <<ocr_vars, filter_vars, disk, pdf, text_documents, image_documents,
                   load_result, run_vars>>

\* doc.close(); return docs
CloseAndReturn ==
    /\ pc = "pages"
    /\ img_loop.page_num >= img_loop.num_pages_to_process
    /\ image_documents' = img_loop.docs
    /\ img_loop' = [img_loop EXCEPT !.returned = "docs"]
    /\ pc' = "combine"
    /\ UNCHANGED <<ocr_vars, filter_vars, disk, pdf, text_documents, load_result,
                   run_vars>>

Combine ==
    /\ pc = "combine"
    /\ load_result' = LoadPdfResult(PdfPath, PdfName, text_documents, image_documents)
    /\ pc' = "loaded"
    /\ UNCHANGED <<ocr_vars, filter_vars, disk, pdf, text_documents, img_loop,
                   image_documents, run_vars>>

NextPDF ==
    \/ LoadText
    \/ OpenPdf
    \/ GetImages
    \/ ImageStep
    \/ EndPage
    \/ CloseAndReturn
    \/ Combine

SpecPDF == InitPDF /\ [][NextPDF]_vars

----------------------------------------------------------------------------
(* Entry point: IngestionPipeline().run_pdf_ingestion(), run_text_ingestion()
   and run_document_ingestion() on a directory *)

\* a directory entry: what the file system says of it and what the file holds
Entry(path, is_file, stat_ok, readable, content) ==
    [path |-> path, is_file |-> is_file, stat_ok |-> stat_ok,
     size_bytes |-> 52429, modified |-> 1700000000,
     readable |-> readable, content |-> content]

\* the entry with another size
Sized(entry, size_bytes) == [entry EXCEPT !.size_bytes = size_bytes]

\* sizes half way between two hundredths of a megabyte: 0.125 and 0.375
HalfWaySizes == <<131072, 393216>>

\* a PDF file: what PyPDFLoader(path).load() gives, whether fitz.open works,
\* and the pages fitz sees
PdfFile(loaded, opened, pages) == [loaded |-> loaded, opened |-> opened, pages |-> pages]

\* a page of text and a blank page holding one 200x200 image in which OCR reads
\* two words
ValidPdf ==
    PdfFile(Return(<< <<"p", "a", "y">>, <<"\f">> >>), TRUE,
            << [listed |-> TRUE, images |-> <<>>],
               [listed |-> TRUE,
                images |-> << Embedded(TRUE, <<200, 200>>, RGB, "saved", ImgInvoice,
                                       TRUE) >>] >>)

\* a file that is no PDF: both libraries refuse it
CorruptedPdf == PdfFile(Raise("PdfReadError"), FALSE, <<>>)

\* two pages, the first with an image in which OCR reads text; listing the
\* images of the second page fails
UnlistablePdf ==
    PdfFile(Return(<< <<"t", "a", "x">>, <<" ">> >>), TRUE,
            << [listed |-> TRUE,
                images |-> << Embedded(TRUE, <<200, 200>>, RGB, "saved", ImgTotal,
                                       TRUE) >>],
               [listed |-> FALSE, images |-> <<>>] >>)

\* the text library refuses the file, the image renderer reads it: one page
\* with an image in which OCR reads text
TextFailsPdf ==
    PdfFile(Raise("PdfReadError"), TRUE,
            << [listed |-> TRUE,
                images |-> << Embedded(TRUE, <<200, 200>>, RGB, "saved", ImgTotal,
                                       TRUE) >>] >>)

\* a PDF without pages
EmptyPdf == PdfFile(Return(<<>>), TRUE, <<>>)

\* six pages of text without images: one character more than a preview
\* holds, exactly as many, and four short pages
LongPdf ==
    PdfFile(Return(<< [i \in 1..PreviewChars + 1 |-> "x"],
                      [i \in 1..PreviewChars |-> "y"],
                      <<"p", "3">>, <<"p", "4">>, <<"p", "5">>, <<"p", "6">> >>),
            TRUE,
            [p \in 1..PreviewCount + 1 |-> [listed |-> TRUE, images |-> <<>>]])

\* what the directory may hold
Catalogue ==
    { Entry(<<"d", "/", "a", ".", "p", "d", "f">>, TRUE, TRUE, TRUE, ValidPdf),
      Sized(Entry(<<"d", "/", "b", ".", "p", "d", "f">>, TRUE, TRUE, TRUE, CorruptedPdf),
            HalfWaySizes[2]),
      Entry(<<"d", "/", "c", ".", "P", "D", "F">>, TRUE, TRUE, TRUE, UnlistablePdf),
      Entry(<<"d", "/", "d", ".", "p", "d", "f">>, TRUE, TRUE, FALSE, ValidPdf),
      Entry(<<"d", "/", "e", ".", "t", "x", "t">>, TRUE, TRUE, TRUE, None),
      Entry(<<"d", "/", "f", ".", "p", "d", "f">>, FALSE, TRUE, TRUE, None),
      Entry(<<"d", "/", "g", ".", "p", "d", "f">>, TRUE, TRUE, TRUE, TextFailsPdf),
      Entry(<<"d", "/", "h", ".", "M", "D">>, TRUE, TRUE, TRUE, None),
      Entry(<<"d", "/", "i", ".", "D", "o", "c">>, TRUE, TRUE, TRUE, None),
      Entry(<<"d", "/", "j", ".", "d", "o", "c", "x">>, TRUE, TRUE, TRUE, None),
      Entry(<<"d", "/", "k", ".", "t", "e", "x">>, TRUE, TRUE, TRUE, None),
      Entry(<<"d", "/", "a", ".", "p", "d", "f", ".", "p", "d", "f">>, TRUE, TRUE, TRUE,
            EmptyPdf),
      Sized(Entry(<<"d", "/", "l", ".", "p", "d", "f">>, TRUE, TRUE, TRUE, LongPdf),
            HalfWaySizes[1]),
      Entry(<<"d", "/", "m", ".", "p", "d", "f">>, TRUE, FALSE, TRUE, ValidPdf) }

Directory(exists, is_dir, entries) ==
    [exists |-> exists, is_dir |-> is_dir, entries |-> entries]

\* run_pdf_ingestion, run_text_ingestion, run_document_ingestion
ConvenienceModes ==
    { [pattern |-> <<"*", ".", "p", "d", "f">>,
       expected_extensions |-> << <<".", "p", "d", "f">> >>],
      [pattern |-> <<"*", ".", "t", "x", "t">>,
       expected_extensions |-> << <<".", "t", "x", "t">>, <<".", "m", "d">> >>],
      [pattern |-> <<"*", ".", "*">>,
       expected_extensions |-> << <<".", "p", "d", "f">>, <<".", "t", "x", "t">>,
                                  <<".", "m", "d">>, <<".", "d", "o", "c", "x">>,
                                  <<".", "d", "o", "c">> >>] }

\* run_pdf_ingestion, run_text_ingestion, run_document_ingestion, and
\* run_ingestion called with a pattern and extensions of the caller's own
RunModes ==
    { [pattern |-> <<"*", ".", "*">>,
       expected_extensions |-> << <<".", "p", "d", "f">>, <<".", "t", "e", "x">> >>] }
    \cup ConvenienceModes

\* what the operator may type at the prompt
Typed ==
    { <<"y">>, <<" ", "Y", "e", "s", " ">>, <<"n", "\t">>, <<"N", "O", "\r", "\n">>, <<>>,
      <<"m", "a", "y", "b", "e">> }

WriteOutcomes == {"written", "refused", "truncated"}

\* the state after IngestionPipeline()
Init ==
    /\ pc = "list_document_files"
    /\ ocr_input = Idle
    /\ ocr_result = Idle
    /\ FilterIdle
    /\ disk = {}
    /\ PdfIdle
    /\ \/ \E entries \in SUBSET Catalogue :
              /\ Cardinality(entries) <= MaxEntries
              /\ source_dir = Directory(TRUE, TRUE, entries)
       \/ source_dir = Directory(FALSE, FALSE, {})
       \/ source_dir = Directory(TRUE, FALSE, {})
    /\ run \in RunModes
    /\ document_files = <<>>
    /\ response = Idle
    /\ confirmed = Idle
    /\ index = 0
    /\ processed_files = <<>>
    /\ failed_files = <<>>
    /\ attempted = <<>>
    /\ summaries = {}
    /\ report = Idle

\* Step 1: document_files = self.list_document_files(...)
ListDocumentFiles ==
    /\ pc = "list_document_files"
    /\ document_files' = ListAndValidateFiles(source_dir, run.pattern,
                                              run.expected_extensions)
    /\ pc' = IF document_files' = <<>> THEN "exited" ELSE "confirm_processing"
    /\ UNCHANGED <<ocr_vars, filter_vars, disk, pdf_vars, source_dir, run, response,
                   confirmed, index, processed_files, failed_files, attempted,
                   summaries, report>>

\* Step 2: self.confirm_processing(document_files, file_type); input() is
\* called only when there is a readable file
ConfirmAnswered ==
    /\ pc = "confirm_processing"
    /\ \E typed \in Typed :
           /\ response' = IF ReadableFiles(document_files) = <<>>
                          THEN Idle ELSE [typed |-> typed]
           /\ confirmed' = [returned |-> ConfirmProcessing(document_files, typed)]
    /\ pc' = IF confirmed'.returned THEN "process_document_files" ELSE "cancelled"
    /\ UNCHANGED <<ocr_vars, filter_vars, disk, pdf_vars, source_dir, run,
                   document_files, index, processed_files, failed_files, attempted,
                   summaries, report>>

\* input() raises EOFError: nothing catches it
ConfirmEndOfInput ==
    /\ pc = "confirm_processing"
    /\ ReadableFiles(document_files) # <<>>
    /\ response' = Raise("EOFError")
    /\ pc' = "raised"
    /\ UNCHANGED <<ocr_vars, filter_vars, disk, pdf_vars, source_dir, run,
                   document_files, confirmed, index, processed_files, failed_files,
                   attempted, summaries, report>>

\* the content of the file at a path
FileAt(path) == (CHOOSE e \in source_dir.entries : e.path = path).content

\* Step 3: one turn of the loop of process_document_files; an exception the
\* loop does not catch leaves process_document_files and run_ingestion
ProcessFile ==
    /\ pc = "process_document_files"
    /\ index < Len(ReadableFiles(document_files))
    /\ LET file_info == ReadableFiles(document_files)[index + 1]
       IN  \E write \in WriteOutcomes :
               \E one \in {ProcessOne(file_info, FileAt(file_info.path), disk,
                                     summaries, write)} :
                   /\ processed_files' = IF one.status = "processed"
                                         THEN Append(processed_files, one.entry)
                                         ELSE processed_files
                   /\ failed_files' = IF one.status = "failed"
                                      THEN Append(failed_files, one.entry)
                                      ELSE failed_files
                   /\ disk' = one.files
                   /\ summaries' = one.written
                   /\ attempted' = Append(attempted, file_info)
                   /\ pc' = IF one.status = "raised" THEN "raised" ELSE pc
    /\ index' = index + 1
    /\ UNCHANGED <<ocr_vars, filter_vars, pdf_vars, source_dir, run, document_files,
                   response, confirmed, report>>

RECURSIVE TotalDocuments(_)
TotalDocuments(processed) ==
    IF processed = <<>> THEN 0
    ELSE Head(processed).processing_result.total_document_count
         + TotalDocuments(Tail(processed))

RECURSIVE TotalSize(_)
TotalSize(processed) ==
    IF processed = <<>> THEN 0
    ELSE Head(processed).file_info.size_mb.num + TotalSize(Tail(processed))

\* Step 4: self.show_final_summary()
ShowFinalSummary ==
    /\ pc = "process_document_files"
    /\ index = Len(ReadableFiles(document_files))
    /\ report' = [successfully_processed |-> Len(processed_files),
                  failed_to_process |-> Len(failed_files),
                  total_size |-> Fraction(TotalSize(processed_files), 100),
                  total_documents |-> TotalDocuments(processed_files)]
    /\ pc' = "completed"
    /\ UNCHANGED <<ocr_vars, filter_vars, disk, pdf_vars, source_dir, run,
                   document_files, response, confirmed, index, processed_files,
                   failed_files, attempted, summaries>>

Next ==
    \/ ListDocumentFiles
    \/ ConfirmAnswered
    \/ ConfirmEndOfInput
    \/ ProcessFile
    \/ ShowFinalSummary

Spec == Init /\ [][Next]_vars

----------------------------------------------------------------------------
(* Properties of process_image *)

\* the engine's words with their confidences and positions
Reported(data) ==
    [i \in 1..Len(data.text) |-> [word |-> data.text[i], conf |-> data.conf[i], at |-> i]]

\* the reported words above the threshold that are not blank, in reported order
Accepted(data, min_confidence) ==
    LET Test(e) == e.conf.v > min_confidence /\ Strip(e.word) # <<>>
    IN  SelectSeq(Reported(data), Test)

\* process_image meets a failure on this input
Fails(input) ==
    \/ ~input.exists
    \/ ~input.image.decodable
    \/ ~input.image.engine_ok
    \/ \E i \in 1..Len(input.image.data.conf) : ~input.image.data.conf[i].numeric
    \/ \E i \in 1..Len(input.image.data.text) :
           /\ input.image.data.conf[i].v > input.min_confidence
           /\ Strip(input.image.data.text[i]) # <<>>
           /\ i > input.image.data.boxes

\* text is the words, one space between two of them and nothing else
RECURSIVE SingleSpaced(_, _)
SingleSpaced(text, words) ==
    IF words = <<>> THEN text = <<>>
    ELSE LET w == Head(words)
         IN  /\ Len(text) >= Len(w)
             /\ SubSeq(text, 1, Len(w)) = w
             /\ IF Len(words) = 1
                THEN Len(text) = Len(w)
                ELSE /\ Len(text) > Len(w)
                     /\ text[Len(w) + 1] = " "
                     /\ SingleSpaced(SubSeq(text, Len(w) + 2, Len(text)), Tail(words))

RECURSIVE SumOf(_)
SumOf(confs) == IF confs = <<>> THEN 0 ELSE Head(confs) + SumOf(Tail(confs))

\* C4: when the engine reads the image, process_image accepts a word iff its
\* confidence is strictly above min_confidence and its trimmed form is not
\* empty; word_details are the accepted words trimmed, in the engine's order,
\* extracted_text is these words joined by single spaces, word_count is their
\* number and has_text says whether there is one.
C4_AcceptedWords ==
    (pc = "returned" /\ ~Fails(ocr_input)) =>
        /\ ~ocr_result.raised
        /\ LET r == ocr_result.value
               acc == Accepted(ocr_input.image.data, ocr_input.min_confidence)
               words == [k \in 1..Len(acc) |-> Strip(acc[k].word)]
           IN  /\ r.word_count = Len(acc)
               /\ r.has_text = (Len(acc) >= 1)
               /\ Len(r.word_details) = Len(acc)
               /\ \A k \in 1..Len(acc) :
                      /\ r.word_details[k].word = words[k]
                      /\ r.word_details[k].confidence = acc[k].conf.v
                      /\ r.word_details[k].box = acc[k].at
               /\ SingleSpaced(r.extracted_text, words)
               /\ r.char_count = Len(r.extracted_text)

\* two words are accepted and a word exactly at the threshold is rejected
C4_Witness ==
    /\ pc = "returned"
    /\ ~Fails(ocr_input)
    /\ ocr_result.value.word_count = 2
    /\ \E i \in 1..Len(ocr_input.image.data.text) :
           /\ ocr_input.image.data.conf[i].v = ocr_input.min_confidence
           /\ Strip(ocr_input.image.data.text[i]) # <<>>

\* C5: average_confidence is the sum of the accepted words' confidences
\* divided by their number, and exactly 0, with no error, when no word is
\* accepted.
C5_AverageConfidence ==
    (pc = "returned" /\ ~Fails(ocr_input)) =>
        /\ ~ocr_result.raised
        /\ LET r == ocr_result.value
               acc == Accepted(ocr_input.image.data, ocr_input.min_confidence)
               total == SumOf([k \in 1..Len(acc) |-> acc[k].conf.v])
           IN  /\ "error" \notin DOMAIN r
               /\ IF Len(acc) = 0
                  THEN r.average_confidence = Zero
                  ELSE /\ r.average_confidence.den > 0
                       /\ r.average_confidence.num * Len(acc)
                              = total * r.average_confidence.den

\* the mean of the accepted confidences is not an integer, beside a rejected word
C5_Witness ==
    /\ pc = "returned"
    /\ ~Fails(ocr_input)
    /\ ocr_result.value.word_count = 2
    /\ Len(ocr_input.image.data.text) = 3
    /\ ocr_result.value.average_confidence = Fraction(101, 2)

\* C6: process_image never raises; on any failure it returns the zero-valued
\* result with an error message.
C6_NeverRaises ==
    pc = "returned" =>
        /\ ~ocr_result.raised
        /\ Fails(ocr_input) =>
              LET r == ocr_result.value
              IN  /\ r.extracted_text = <<>>
                  /\ r.word_count = 0
                  /\ r.char_count = 0
                  /\ r.word_details = <<>>
                  /\ r.has_text = FALSE
                  /\ r.average_confidence = Zero
                  /\ "error" \in DOMAIN r
                  /\ r.image_path = ocr_input.image_path

\* the engine's output is malformed after a word was already accepted
C6_Witness ==
    /\ pc = "returned"
    /\ Len(ocr_input.image.data.text) >= 2
    /\ ocr_input.image.data.conf[1].numeric
    /\ ocr_input.image.data.conf[1].v > ocr_input.min_confidence
    /\ Strip(ocr_input.image.data.text[1]) # <<>>
    /\ ocr_input.image.data.boxes >= 1
    /\ ~ocr_input.image.data.conf[2].numeric
    /\ "error" \in DOMAIN ocr_result.value

----------------------------------------------------------------------------
(* Properties of filter_useful_images *)

\* the usefulness test as the specification words it
PassesTest(r) ==
    /\ r.has_text = TRUE
    /\ ~(r.word_count < thresholds.min_words)
    /\ ~(r.char_count < thresholds.min_chars)

\* the results of the call that pass the test, in input order
Kept(call) == SelectSeq(call.ocr_results, PassesTest)

\* the image files of the results of the call that fail the test
RejectedFiles(call) ==
    { call.ocr_results[i].image_path :
        i \in { j \in 1..Len(call.ocr_results) : ~PassesTest(call.ocr_results[j]) } }

KeptFiles(call) ==
    { call.ocr_results[i].image_path :
        i \in { j \in 1..Len(call.ocr_results) : PassesTest(call.ocr_results[j]) } }

\* C7 as stated: the call returns exactly the results that pass the test, in
\* input order; the file of every result that fails it is absent afterwards if
\* it existed before; the file of every kept result is left untouched.
C7_AsStated ==
    pc = "filtered" =>
        /\ call1.useful_results = Kept(call1)
        /\ \A f \in RejectedFiles(call1) : f \in call1.before => f \notin call1.after
        /\ \A f \in KeptFiles(call1) : (f \in call1.before) = (f \in call1.after)

\* C7 (amended): the call returns exactly the results that pass the test, in
\* input order; the file of every result that fails it is absent afterwards if
\* it existed before and the file system allowed its removal, and is still
\* there if the removal failed (the exception is swallowed); the file of every
\* kept result is left untouched, and no file appears.
C7_FilterUseful ==
    pc = "filtered" =>
        /\ call1.useful_results = Kept(call1)
        /\ \A f \in RejectedFiles(call1) :
               f \in call1.before => (f \notin call1.after <=> f \in unlinkable)
        /\ \A f \in KeptFiles(call1) : (f \in call1.before) = (f \in call1.after)
        /\ call1.after \subseteq call1.before

\* a result is kept beside its file, one is rejected and its file removed, with
\* the default thresholds
C7_Witness ==
    /\ pc = "filtered"
    /\ thresholds = [min_words |-> DefaultMinWords, min_chars |-> DefaultMinChars]
    /\ Len(call1.ocr_results) = 3
    /\ Len(call1.useful_results) = 1
    /\ call1.before = ImagePaths
    /\ Cardinality(call1.after) = 1
    /\ call1.useful_results[1].image_path \in call1.after

\* C8: filter_useful_images applied to its own output with the same thresholds
\* returns that list unchanged and removes no file.
C8_Idempotent ==
    pc = "refiltered" =>
        /\ call2.ocr_results = call1.useful_results
        /\ call2.useful_results = call1.useful_results
        /\ call2.after = call2.before
        /\ call2.before = call1.after

\* the first call dropped a result and kept another, whose file is on disk
C8_Witness ==
    /\ pc = "refiltered"
    /\ Len(call1.useful_results) >= 1
    /\ Len(call1.useful_results) < Len(call1.ocr_results)
    /\ \E i \in 1..Len(call2.useful_results) :
           call2.useful_results[i].image_path \in call2.after
    /\ call1.after # call1.before

\* what _run_ocr_on_image(img, 50) returns for the image process_image was
\* given
LoaderText ==
    RunOcrOnImage(ocr_input.exists, ocr_input.image, DefaultMinConfidence)

\* the two routines give the same text, and the loader's test of the text is
\* the adapter's has_text
RoutinesAgree ==
    /\ LoaderText = ocr_result.value.extracted_text
    /\ Strip(LoaderText) # <<>> <=> ocr_result.value.has_text

\* C22: for every output of the engine (words and confidences, every word
\* with its box) and for a failure of the engine, _run_ocr_on_image(img, 50)
\* returns the extracted_text that
\* OCRProcessor(min_confidence=50).process_image(img) returns, and the image
\* gives a document exactly when the adapter reports has_text.
C22_OcrRoutinesAgree ==
    (pc = "returned" /\ ocr_input.min_confidence = DefaultMinConfidence) =>
        RoutinesAgree

\* both routines returned the same text that is not empty, for an output of
\* the engine in which a word at the threshold was rejected by both
C22_Witness ==
    /\ pc = "returned"
    /\ ocr_input.min_confidence = DefaultMinConfidence
    /\ ocr_result.value.has_text
    /\ LoaderText = ocr_result.value.extracted_text
    /\ \E i \in 1..Len(ocr_input.image.data.text) :
           /\ ocr_input.image.data.conf[i] = Numeric(DefaultMinConfidence)
           /\ Strip(ocr_input.image.data.text[i]) # <<>>
    /\ Len(ocr_result.value.word_details) < Len(ocr_input.image.data.text)

----------------------------------------------------------------------------
(* Properties of load_pdf *)

\* the documents of a list that have the given type
OfType(documents, type) ==
    LET Test(d) == d.metadata.type = type
    IN  SelectSeq(documents, Test)

\* every document of the list has content that is not blank
AllNonBlank(documents) ==
    \A i \in 1..Len(documents) : Strip(documents[i].page_content) # <<>>

\* C9: the result of load_pdf has text_document_count + image_document_count
\* = total_document_count = len(documents), its documents are text or
\* image_ocr documents with content that is not empty after trimming, and no
\* list the loader builds ever holds a document with empty content: a blank
\* page yields no text document.
C9_CountsAndContent ==
    /\ AllNonBlank(text_documents)
    /\ AllNonBlank(image_documents)
    /\ img_loop # Idle => AllNonBlank(img_loop.docs)
    /\ pc \notin {"load_text"} =>
           \A d \in { text_documents[i] : i \in 1..Len(text_documents) } :
               Strip(pdf.pages[d.metadata.page].content) # <<>>
    /\ pc = "loaded" =>
           LET r == load_result
           IN  /\ r.text_document_count + r.image_document_count = r.total_document_count
               /\ r.total_document_count = Len(r.documents)
               /\ AllNonBlank(r.documents)
               /\ \A i \in 1..Len(r.documents) :
                      r.documents[i].metadata.type \in {"text", "image_ocr"}
               /\ Len(OfType(r.documents, "text")) = r.text_document_count
               /\ Len(OfType(r.documents, "image_ocr")) = r.image_document_count

\* a PDF with a blank page, a page with text, an image with text and an image
\* whose OCR text is empty has been loaded
C9_Witness ==
    /\ pc = "loaded"
    /\ \E p \in 1..Len(pdf.pages) : Strip(pdf.pages[p].content) = <<>>
    /\ load_result.text_document_count = 1
    /\ load_result.image_document_count = 1
    /\ Cardinality(img_loop.scanned) = 2

\* the image_path of the image documents of a list
ImagePathsOf(documents) ==
    { d.metadata.image_path :
        d \in { documents[i] : i \in 1..Len(documents) } }

\* C10: an embedded image narrower than MIN_IMAGE_WIDTH or shorter than
\* MIN_IMAGE_HEIGHT is never written to the image directory, never handed to
\* OCR, and no document comes from it.
C10_SmallImagesSkipped ==
    img_loop # Idle =>
        \A e \in img_loop.small :
            /\ e.path \notin img_loop.written
            /\ e.path \notin disk
            /\ e.path \notin img_loop.scanned
            /\ e.path \notin ImagePathsOf(img_loop.docs)
            /\ e.path \notin ImagePathsOf(image_documents)
            /\ pc = "loaded" =>
                   e.path \notin ImagePathsOf(OfType(load_result.documents, "image_ocr"))

\* a PDF with an 80x80 image and an image that gave a document has been loaded
C10_Witness ==
    /\ pc = "loaded"
    /\ img_loop # Idle
    /\ \E e \in img_loop.small : e.size = <<80, 80>>
    /\ load_result.image_document_count = 1


\* the entries of the record of the loop
Entries(log) == { log[i] : i \in 1..Len(log) }

\* the images that were saved and in which OCR read no text
SavedBlank(log) ==
    { e \in Entries(log) : e.save = "saved" /\ Strip(e.ocr_text) = <<>> }

\* every list of image documents there is: the local docs, the list returned
\* and the documents of the result
NoDocumentFrom(path) ==
    /\ path \notin ImagePathsOf(img_loop.docs)
    /\ path \notin ImagePathsOf(image_documents)
    /\ pc = "loaded" =>
           path \notin ImagePathsOf(OfType(load_result.documents, "image_ocr"))

\* the claim C11 as it is stated: a saved image whose OCR text is empty is no
\* longer on disk once its turn of the loop is over, and gives no document.
C11_AsStated ==
    img_loop # Idle =>
        \A e \in SavedBlank(img_loop.log) :
            /\ e.path \notin disk
            /\ NoDocumentFrom(e.path)

\* C11, amended: a saved image whose OCR text is empty after trimming (OCR
\* having failed included) gives no image_ocr document, and once its turn of
\* the loop is over its file is gone exactly when the file system let unlink
\* remove it; when unlink raises, the handler of the image swallows it and the
\* file stays.
C11_BlankImageRemoved ==
    img_loop # Idle =>
        \A e \in SavedBlank(img_loop.log) :
            /\ e.path \in img_loop.written
            /\ e.path \in img_loop.scanned
            /\ e.path \notin disk <=> e.unlink_ok
            /\ NoDocumentFrom(e.path)

\* the loop went on after removing the file of an image without text: a later
\* image gave a document
C11_Witness ==
    /\ pc = "loaded"
    /\ img_loop # Idle
    /\ Len(img_loop.log) = 2
    /\ img_loop.log[1] \in SavedBlank(img_loop.log)
    /\ img_loop.log[1].path \notin disk
    /\ load_result.image_document_count = 1

\* the entries of the record whose image was saved and read with text
WithText(log) ==
    LET Test(e) == e.save = "saved" /\ Strip(e.ocr_text) # <<>>
    IN  SelectSeq(log, Test)

\* processing the image raised: Pixmap, the conversion, pix.save or unlink
Failed(e) ==
    \/ ~e.decode_ok
    \/ e.save \in {"failed", "partial"}
    \/ ~e.unlink_ok

\* the number of images of the first n pages
RECURSIVE ImagesUpTo(_)
ImagesUpTo(n) == IF n = 0 THEN 0 ELSE pdf.pages[n].images + ImagesUpTo(n - 1)

\* docs holds the documents of the images of the record read with text, in
\* the order of the record
DocumentsOf(docs, log) ==
    /\ Len(docs) = Len(WithText(log))
    /\ \A k \in 1..Len(docs) :
           /\ docs[k].metadata.image_path = WithText(log)[k].path
           /\ docs[k].page_content = WithText(log)[k].ocr_text
           /\ docs[k].metadata.page = WithText(log)[k].path[2]

\* C13: whatever failed for an image (decoding, saving, OCR, removing), the
\* loop has handled every image up to its position, docs holds the documents
\* of all images read with text so far, and when the loop ends every image of
\* every page has been handled and these documents are returned.
C13_ImageFailureContained ==
    (img_loop # Idle /\ img_loop.returned # "except") =>
        /\ DocumentsOf(img_loop.docs, img_loop.log)
        /\ pc = "images" =>
               Len(img_loop.log) = ImagesUpTo(img_loop.page_num) + img_loop.img_index - 1
        /\ pc = "pages" => Len(img_loop.log) = ImagesUpTo(img_loop.page_num)
        /\ img_loop.returned = "docs" =>
               /\ Len(img_loop.log) = ImagesUpTo(Len(pdf.pages))
               /\ DocumentsOf(image_documents, img_loop.log)
        /\ (pc = "loaded" /\ img_loop.returned = "docs") =>
               DocumentsOf(OfType(load_result.documents, "image_ocr"), img_loop.log)

\* a PDF was loaded in which an image gave a document, the next image failed,
\* and the document was returned
C13_Witness ==
    /\ pc = "loaded"
    /\ img_loop # Idle
    /\ img_loop.returned = "docs"
    /\ Len(img_loop.log) = 2
    /\ ~Failed(img_loop.log[1])
    /\ Failed(img_loop.log[2])
    /\ load_result.image_document_count = 1

\* the number of words of a text: the starts of its runs of other characters
\* than the space
WordsIn(text) ==
    Cardinality({ i \in 1..Len(text) :
                    text[i] # " " /\ (i = 1 \/ text[i - 1] = " ") })

\* the OCR result behind a document: has_text, word_count and char_count as
\* process_image sets them from the text
ResultBehind(doc) ==
    [has_text |-> Strip(doc.page_content) # <<>>,
     word_count |-> WordsIn(doc.page_content),
     char_count |-> Len(doc.page_content)]

\* the image_ocr documents there are: collected, returned by the image stage,
\* and in the result of load_pdf
ImageOcrDocuments ==
    { img_loop.docs[k] : k \in 1..Len(img_loop.docs) }
      \cup { image_documents[k] : k \in 1..Len(image_documents) }
      \cup IF pc = "loaded"
           THEN LET docs == OfType(load_result.documents, "image_ocr")
                IN  { docs[k] : k \in 1..Len(docs) }
           ELSE {}

\* the claim C19 as it is stated: every image_ocr document has a text that
\* passes the usefulness filter with its default thresholds.
C19_AsStated ==
    img_loop # Idle =>
        \A doc \in ImageOcrDocuments :
            IsUseful(ResultBehind(doc), DefaultMinWords, DefaultMinChars)

\* C19, amended: every image_ocr document returned by load_pdf is backed by
\* exactly one saved image, and its content is the OCR text of that image
\* (the words above confidence 50, joined by spaces), which is non-empty after
\* trimming; char_count is the length of that text. No minimum of words or
\* characters is asked: one accepted word is enough.
C19_BackedByOneImage ==
    img_loop # Idle =>
        \A doc \in ImageOcrDocuments :
            /\ Cardinality({ i \in 1..Len(img_loop.log) :
                               img_loop.log[i].path = doc.metadata.image_path }) = 1
            /\ \E i \in 1..Len(img_loop.log) :
                   /\ img_loop.log[i].path = doc.metadata.image_path
                   /\ img_loop.log[i].save = "saved"
                   /\ img_loop.log[i].ocr_text = doc.page_content
            /\ doc.metadata.image_path \in img_loop.scanned
            /\ doc.metadata.type = "image_ocr"
            /\ Strip(doc.page_content) # <<>>
            /\ WordsIn(doc.page_content) >= 1
            /\ doc.metadata.char_count = Len(doc.page_content)

\* load_pdf returned an image_ocr document of one word and two characters
C19_Witness ==
    /\ pc = "loaded"
    /\ img_loop # Idle
    /\ \E doc \in ImageOcrDocuments :
           /\ doc \in { load_result.documents[k] : k \in 1..Len(load_result.documents) }
           /\ WordsIn(doc.page_content) = 1
           /\ Len(doc.page_content) = 2

\* C20: once _load_images_with_ocr has returned, by its return docs or by
\* the return [] of its outer handler, every file pix.save created during the
\* call that is still on disk is the image_path of exactly one document of the
\* returned list.
C20_NoOrphanImage ==
    (img_loop # Idle /\ img_loop.returned # "no") =>
        \A path \in img_loop.written \cap disk :
            Cardinality({ k \in 1..Len(image_documents) :
                            image_documents[k].metadata.image_path = path }) = 1

----------------------------------------------------------------------------
(* Properties of the ingestion run *)

\* the positions of a list of entries that are about a file
EntriesOf(entries, file_info) ==
    { j \in 1..Len(entries) : entries[j].file_info = file_info }

\* the loop is running or has run to its end
Processing == pc \in {"process_document_files", "completed"}

\* C1: once the operator has confirmed, the readable files are attempted once
\* each in the order of discovery, every attempted file is in exactly one of
\* processed_files and failed_files, no exception leaves the loop, and the
\* completed run has attempted every readable file and reported the two counts.
C1_EveryFileRecordedOnce ==
    LET readable == ReadableFiles(document_files)
    IN  /\ index <= Len(readable)
        /\ attempted = SubSeq(readable, 1, index)
        /\ Len(processed_files) + Len(failed_files) = Len(attempted)
        /\ \A i \in 1..Len(attempted) :
               Cardinality(EntriesOf(processed_files, attempted[i]))
                 + Cardinality(EntriesOf(failed_files, attempted[i])) = 1
        /\ (confirmed # Idle /\ confirmed.returned) => Processing
        /\ pc = "raised" => attempted = <<>>
        /\ pc = "completed" =>
               /\ attempted = readable
               /\ report.successfully_processed + report.failed_to_process
                    = Len(readable)
               /\ report.successfully_processed = Len(processed_files)
               /\ report.failed_to_process = Len(failed_files)

\* a completed run of at least two files whose first file failed and in which
\* a later file was processed
C1_Witness ==
    /\ pc = "completed"
    /\ Len(attempted) >= 2
    /\ failed_files # <<>>
    /\ failed_files[1].file_info = attempted[1]
    /\ processed_files # <<>>

\* C2: no file is processed, and confirm_processing does not return True,
\* unless the operator's answer is y or yes once lowered and trimmed.
C2_ExplicitAffirmative ==
    /\ (confirmed # Idle /\ confirmed.returned) =>
           Strip(Lower(response.typed)) \in Yes
    /\ Processing => Strip(Lower(response.typed)) \in Yes
    /\ attempted # <<>> => Strip(Lower(response.typed)) \in Yes

IsPdf(file_info) == Lower(file_info.extension) = <<".", "p", "d", "f">>

\* neither the text library nor the image renderer can open the file
Corrupted(file_info) ==
    /\ IsPdf(file_info)
    /\ FileAt(file_info.path).loaded.raised
    /\ ~FileAt(file_info.path).opened

\* both libraries open the file
Valid(file_info) ==
    /\ IsPdf(file_info)
    /\ ~FileAt(file_info.path).loaded.raised
    /\ FileAt(file_info.path).opened

\* the files attempted are one valid and one corrupted PDF
ValidAndCorruptedBatch ==
    /\ Len(attempted) = 2
    /\ \E i, j \in 1..2 : Valid(attempted[i]) /\ Corrupted(attempted[j])

\* the summary of a file holds all of the data of result
SummaryHolds(file_info, result) ==
    \E f \in summaries : /\ f.file = SummaryFile(file_info)
                         /\ f.data = SummaryData(file_info, result)

\* what load_pdf returns when no document was extracted
NoDocuments(file_info) ==
    LoadPdfResult(file_info.path, PathStem(file_info.path), <<>>, <<>>)

\* the claim C3 as it is stated: a corrupted PDF is an entry of failed_files
\* and not of processed_files, and the batch of one valid and one corrupted PDF
\* reports 1 success and 1 failure.
C3_AsStated ==
    /\ \A i \in 1..Len(attempted) :
           Corrupted(attempted[i]) =>
               /\ EntriesOf(failed_files, attempted[i]) # {}
               /\ EntriesOf(processed_files, attempted[i]) = {}
    /\ (pc = "completed" /\ ValidAndCorruptedBatch) =>
           /\ report.successfully_processed = 1
           /\ report.failed_to_process = 1

\* C3, amended: both extraction stages swallow what the libraries raise, so a
\* corrupted PDF is an entry of processed_files with no document exactly when
\* its summary was written, and an entry of failed_files only when saving the
\* summary failed, the error being that of the save behind the prefix
\* "PDF processing failed: "; the batch of one valid and one corrupted PDF
\* whose summaries were both written reports 2 successes and no failure.
C3_CorruptedPdfRecorded ==
    /\ \A i \in 1..Len(attempted) :
           Corrupted(attempted[i]) =>
               LET file_info == attempted[i]
                   saved == SummaryHolds(file_info, NoDocuments(file_info))
               IN  /\ saved <=>
                         \E j \in EntriesOf(processed_files, file_info) :
                             /\ processed_files[j].processing_result
                                  = NoDocuments(file_info)
                             /\ processed_files[j].processing_result
                                  .total_document_count = 0
                   /\ ~saved <=>
                         \E j \in EntriesOf(failed_files, file_info) :
                             /\ failed_files[j].error.prefix
                                  = "PDF processing failed: "
                             /\ failed_files[j].error.cause
                                  \in {"Permission denied", "No space left on device"}
    /\ ( /\ pc = "completed"
         /\ ValidAndCorruptedBatch
         /\ \A i \in 1..2 :
               \E f \in summaries : /\ f.file = SummaryFile(attempted[i])
                                    /\ f.data # [truncated |-> TRUE] )
       => /\ report.successfully_processed = 2
          /\ report.failed_to_process = 0

\* the batch of the valid and the corrupted PDF, completed with both recorded
\* as processed, the valid one with its two documents and the corrupted one
\* with none
C3_Witness ==
    /\ pc = "completed"
    /\ ValidAndCorruptedBatch
    /\ Len(processed_files) = 2
    /\ failed_files = <<>>
    /\ \E j \in 1..2 : /\ Corrupted(processed_files[j].file_info)
                       /\ processed_files[j].processing_result.documents = <<>>
    /\ \E j \in 1..2 : /\ Valid(processed_files[j].file_info)
                       /\ processed_files[j].processing_result.total_document_count = 2

\* the pages whose text is not blank
NonBlankPages(page_contents) ==
    { i \in 1..Len(page_contents) : Strip(page_contents[i]) # <<>> }

\* the image stage fails as a whole: fitz.open or a page's get_images raises
ImageStageFails(file) ==
    \/ ~file.opened
    \/ \E p \in 1..Len(file.pages) : ~file.pages[p].listed

\* the embedded images of a file that are decoded, large enough and saved, and
\* in which OCR reads text, as <<page, index>>
ImagesWithText(file) ==
    { pi \in UNION { { <<p, i>> : i \in 1..Len(file.pages[p].images) } :
                       p \in 1..Len(file.pages) } :
        LET img == file.pages[pi[1]].images[pi[2]]
        IN  /\ img.decode_ok
            /\ img.width >= MIN_IMAGE_WIDTH /\ img.height >= MIN_IMAGE_HEIGHT
            /\ SaveOutcome(img) = "saved"
            /\ Strip(RunOcrOnImage(TRUE, img.image, DefaultMinConfidence)) # <<>> }

\* C12: load_pdf never raises for an extraction failure, so a PDF fails only
\* on saving its summary; when text extraction fails the text list is empty
\* and the images are still extracted; when the image stage fails as a whole
\* the image list is empty and the text documents are still returned.
C12_StagesIndependent ==
    \A i \in 1..Len(attempted) :
        IsPdf(attempted[i]) =>
            LET file == FileAt(attempted[i].path)
            IN  /\ \A j \in EntriesOf(failed_files, attempted[i]) :
                       failed_files[j].error.cause
                           \in {"Permission denied", "No space left on device"}
                /\ \A j \in EntriesOf(processed_files, attempted[i]) :
                       LET r == processed_files[j].processing_result
                       IN  /\ r.text_document_count =
                                  IF file.loaded.raised THEN 0
                                  ELSE Cardinality(NonBlankPages(file.loaded.value))
                           /\ r.image_document_count =
                                  IF ImageStageFails(file) THEN 0
                                  ELSE Cardinality(ImagesWithText(file))
                           /\ Len(r.documents)
                                = r.text_document_count + r.image_document_count

\* a run that processed a PDF whose text extraction failed and whose image gave
\* a document, and a PDF whose image stage failed and whose text was returned
C12_Witness ==
    /\ pc = "completed"
    /\ \E j \in 1..Len(processed_files) :
           /\ FileAt(processed_files[j].file_info.path).loaded.raised
           /\ processed_files[j].processing_result.text_document_count = 0
           /\ processed_files[j].processing_result.image_document_count = 1
    /\ \E j \in 1..Len(processed_files) :
           /\ ImageStageFails(FileAt(processed_files[j].file_info.path))
           /\ processed_files[j].processing_result.text_document_count = 1
           /\ processed_files[j].processing_result.image_document_count = 0

\* the only entry about a file is in failed_files and carries this error
FailedWith(file_info, error) ==
    /\ EntriesOf(processed_files, file_info) = {}
    /\ \A j \in EntriesOf(failed_files, file_info) : failed_files[j].error = error
    /\ Cardinality(EntriesOf(failed_files, file_info)) = 1

\* C14: an attempted file goes by its extension in lower case: .pdf to the PDF
\* extractor, so that it is processed or fails with "PDF processing failed: ";
\* .txt, .md, .docx and .doc to a not-implemented error; any other extension
\* to "Unsupported file type: " with the extension; each error is one entry of
\* failed_files and the run goes on.
C14_DispatchByExtension ==
    /\ pc = "raised" => attempted = <<>>
    /\ \A i \in 1..Len(attempted) :
           LET file_info == attempted[i]
               ext == Lower(PathSuffix(file_info.path))
           IN  IF ext = <<".", "p", "d", "f">>
               THEN \/ /\ Cardinality(EntriesOf(processed_files, file_info)) = 1
                       /\ EntriesOf(failed_files, file_info) = {}
                    \/ /\ EntriesOf(processed_files, file_info) = {}
                       /\ Cardinality(EntriesOf(failed_files, file_info)) = 1
                       /\ \A j \in EntriesOf(failed_files, file_info) :
                              failed_files[j].error.prefix = "PDF processing failed: "
               ELSE IF ext \in { <<".", "t", "x", "t">>, <<".", "m", "d">> }
               THEN FailedWith(file_info,
                               [prefix |-> "Text file processing not yet implemented"])
               ELSE IF ext \in { <<".", "d", "o", "c", "x">>, <<".", "d", "o", "c">> }
               THEN FailedWith(file_info,
                               [prefix |-> "Word document processing not yet implemented"])
               ELSE FailedWith(file_info, [prefix |-> "Unsupported file type: ",
                                           extension |-> ext])

\* a completed run in which a .PDF file was processed, a .Doc file failed as
\* not implemented, and a later file was still attempted
C14_Witness ==
    /\ pc = "completed"
    /\ Len(attempted) = 3
    /\ \E j \in 1..Len(processed_files) :
           processed_files[j].file_info.extension = <<".", "P", "D", "F">>
    /\ \E j \in 1..Len(failed_files) :
           /\ failed_files[j].file_info.extension = <<".", "D", "o", "c">>
           /\ failed_files[j].file_info = attempted[2]
           /\ failed_files[j].error
                = [prefix |-> "Word document processing not yet implemented"]

\* a name without its last four characters when these are ".pdf"
WithoutPdfSuffix(name) ==
    IF /\ Len(name) >= 4
       /\ SubSeq(name, Len(name) - 3, Len(name)) = <<".", "p", "d", "f">>
    THEN SubSeq(name, 1, Len(name) - 4)
    ELSE name

\* the names of the summary files there are
SummaryNames == { f.file : f \in summaries }

\* C15: the summary of a processed PDF is named by its file name without the
\* trailing .pdf, followed by _summary.json; the rest of the name is kept.
C15_SummaryNamedBySuffix ==
    \A j \in 1..Len(processed_files) :
        [file_name |-> WithoutPdfSuffix(processed_files[j].file_info.name),
         ending |-> "_summary.json"] \in SummaryNames

\* the summary file of a processed file holds the summary of that file
OwnSummary(entry) ==
    \E f \in summaries :
        /\ f.file = SummaryFile(entry.file_info)
        /\ f.data = SummaryData(entry.file_info, entry.processing_result)

\* C16: the summary written for a processed file is not overwritten by the
\* processing of another file, and the completed run leaves as many summaries
\* as there are entries in processed_files.
C16_OneSummaryPerFile ==
    /\ \A j \in 1..Len(processed_files) : OwnSummary(processed_files[j])
    /\ pc = "completed" =>
           Cardinality({ f \in summaries : f.data # [truncated |-> TRUE] })
               = Len(processed_files)

\* the summary file of a processed entry, when it still is that of its file
SummariesOf(entry) ==
    { f \in summaries : /\ f.file = SummaryFile(entry.file_info)
                        /\ f.data # [truncated |-> TRUE]
                        /\ f.data.original_file = entry.file_info.path }

\* the previews are those of the first min(5, total) documents, in order
FirstDocumentsPreviewed(previews, r) ==
    /\ Len(previews) = Min(PreviewCount, r.total_document_count)
    /\ \A k \in 1..Len(previews) :
           /\ previews[k].document_index = k - 1
           /\ previews[k].type = r.documents[k].metadata.type
           /\ previews[k].page = r.documents[k].metadata.page
           /\ previews[k].char_count = Len(r.documents[k].page_content)
           /\ previews[k].type = "image_ocr" =>
                  previews[k].image_path = r.documents[k].metadata.image_path

\* the claim C17 as it is stated: the previews are those of the first
\* min(5, total_document_count) documents and every content_preview is the
\* content cut to 200 characters, never longer than 200.
C17_AsStated ==
    \A j \in 1..Len(processed_files) :
        \A f \in SummariesOf(processed_files[j]) :
            LET r == processed_files[j].processing_result
                previews == f.data.documents_preview
            IN  /\ FirstDocumentsPreviewed(previews, r)
                /\ \A k \in 1..Len(previews) :
                       LET content == r.documents[k].page_content
                       IN  /\ previews[k].content_preview
                                = SubSeq(content, 1, Min(PreviewChars, Len(content)))
                           /\ Len(previews[k].content_preview) <= PreviewChars

\* C17, amended: the previews are those of the first min(5,
\* total_document_count) documents in order; a content of at most 200
\* characters is previewed whole, and a longer one as its first 200
\* characters followed by "...", 203 characters in all.
C17_Previews ==
    \A j \in 1..Len(processed_files) :
        \A f \in SummariesOf(processed_files[j]) :
            LET r == processed_files[j].processing_result
                previews == f.data.documents_preview
            IN  /\ FirstDocumentsPreviewed(previews, r)
                /\ \A k \in 1..Len(previews) :
                       LET content == r.documents[k].page_content
                           preview == previews[k].content_preview
                       IN  IF Len(content) <= PreviewChars
                           THEN preview = content
                           ELSE /\ Len(preview) = PreviewChars + 3
                                /\ SubSeq(preview, 1, PreviewChars)
                                     = SubSeq(content, 1, PreviewChars)
                                /\ SubSeq(preview, PreviewChars + 1, PreviewChars + 3)
                                     = <<".", ".", ".">>

\* the summary of a PDF with six documents holds five previews, one of 203
\* characters and one of exactly 200
C17_Witness ==
    \E j \in 1..Len(processed_files) :
        /\ processed_files[j].processing_result.total_document_count = PreviewCount + 1
        /\ \E f \in SummariesOf(processed_files[j]) :
               /\ Len(f.data.documents_preview) = PreviewCount
               /\ Len(f.data.documents_preview[1].content_preview) = PreviewChars + 3
               /\ Len(f.data.documents_preview[2].content_preview) = PreviewChars

EndsWith(str, suffix) ==
    /\ Len(str) >= Len(suffix)
    /\ SubSeq(str, Len(str) - Len(suffix) + 1, Len(str)) = suffix

\* a name matches the pattern of the run: *.* asks for a dot, and * followed
\* by an ending asks for that ending
PatternMatches(pattern, name) ==
    IF pattern = <<"*", ".", "*">>
    THEN \E i \in 1..Len(name) : name[i] = "."
    ELSE EndsWith(name, Tail(pattern))

\* the N files of the directory that match the pattern
MatchingFiles ==
    { e \in source_dir.entries :
        e.is_file /\ PatternMatches(run.pattern, PathName(e.path)) }

\* the M of them whose extension is in the allow-list, case aside
AllowedFiles ==
    { e \in MatchingFiles :
        \E i \in 1..Len(run.expected_extensions) :
            Lower(PathSuffix(e.path)) = Lower(run.expected_extensions[i]) }

\* document_files holds one record for each of these files, sorted by path
RecordsOf(files) ==
    /\ Len(document_files) = Cardinality(files)
    /\ { document_files[i].path : i \in 1..Len(document_files) }
         = { e.path : e \in files }
    /\ \A i \in 1..Len(document_files) :
           \E e \in files : /\ document_files[i].path = e.path
                            /\ document_files[i].name = PathName(e.path)
                            /\ document_files[i].is_readable = e.readable
    /\ \A i, j \in 1..Len(document_files) :
           i < j => StrLess(document_files[i].path, document_files[j].path)

\* the claim C18 as it is stated: discovery returns exactly the M records of
\* the matching files with an allowed extension, sorted by path, and an empty
\* result for a missing directory or a path that is no directory.
C18_AsStated ==
    pc # "list_document_files" =>
        IF source_dir.exists /\ source_dir.is_dir
        THEN RecordsOf(AllowedFiles)
        ELSE document_files = <<>>

\* C18, amended: discovery returns the records, sorted by path, of exactly
\* those of the M matching files with an allowed extension whose stat
\* succeeds; a file whose stat raises is left out without an error; a missing
\* directory or a path that is no directory gives an empty result.
C18_Discovery ==
    pc # "list_document_files" =>
        IF source_dir.exists /\ source_dir.is_dir
        THEN RecordsOf({ e \in AllowedFiles : e.stat_ok })
        ELSE document_files = <<>>

\* three files matched the pattern, two of them have an allowed extension, one
\* of these in capitals, and discovery returned two records
C18_Witness ==
    /\ pc # "list_document_files"
    /\ Cardinality(MatchingFiles) = 3
    /\ Cardinality(AllowedFiles) = 2
    /\ Len(document_files) = 2
    /\ \E i \in 1..2 : document_files[i].extension = <<".", "P", "D", "F">>

\* the entries of a list that are about a PDF
PdfEntries(entries) ==
    { j \in 1..Len(entries) : IsPdf(entries[j].file_info) }

\* the step appends an entry for a PDF to processed_files
AppendsProcessedPdf ==
    /\ Len(processed_files') = Len(processed_files) + 1
    /\ IsPdf(processed_files'[Len(processed_files')].file_info)

\* after the step the summary file of the last entry of processed_files holds
\* the whole summary of that entry
LastSummaryWritten ==
    \E f \in summaries' :
        LET entry == processed_files'[Len(processed_files')]
        IN  /\ f.file = SummaryFile(entry.file_info)
            /\ f.data = SummaryData(entry.file_info, entry.processing_result)

\* every processed PDF has its summary file, and a failed PDF failed with the
\* prefix of process_pdf_file and is not among the processed files
ProcessedHaveSummary ==
    /\ \A j \in PdfEntries(processed_files) :
           SummaryFile(processed_files[j].file_info) \in SummaryNames
    /\ \A j \in PdfEntries(failed_files) :
           /\ failed_files[j].error.prefix = "PDF processing failed: "
           /\ EntriesOf(processed_files, failed_files[j].file_info) = {}
    /\ summaries # {} => processed_files # <<>> \/ failed_files # <<>>

\* C21: a PDF is appended to processed_files only in a step that has written
\* its whole summary; a PDF for which load_pdf or save_processed_data raised
\* is in failed_files with "PDF processing failed: " and not in
\* processed_files; so at every point of the run each PDF of processed_files
\* has its summary file on disk.
C21_ProcessedAfterSummary ==
    /\ []ProcessedHaveSummary
    /\ [][AppendsProcessedPdf => LastSummaryWritten]_vars

\* one PDF was processed and its summary is on disk, and for another PDF
\* save_processed_data was refused: it is in failed_files and no summary file
\* bears its name
C21_Witness ==
    /\ \E j \in PdfEntries(processed_files) : OwnSummary(processed_files[j])
    /\ \E j \in PdfEntries(failed_files) :
           /\ failed_files[j].error = [prefix |-> "PDF processing failed: ",
                                       cause |-> "Permission denied"]
           /\ SummaryFile(failed_files[j].file_info) \notin SummaryNames

====
